---- MODULE Spec2Model ----
(***************************************************************************)
(* Event delivery of the TypeScript SDK client RovnAgent                   *)
(* (packages/sdk-ts/src/index.ts): the in-memory event queue, the drain    *)
(* loop with exponential backoff, flush(), and the two submission modes    *)
(* of sendEvent.                                                           *)
(*                                                                         *)
(* One step of the model is one run-to-completion turn of the JavaScript   *)
(* event loop: the code between two suspension points (await of fetch,     *)
(* await of a setTimeout promise, a timer callback).  The await of         *)
(* fetch() and the await of res.json() inside request() touch no field of  *)
(* the instance between them and are one "reply" step.  A continuation    *)
(* that becomes runnable inside a turn (flush() resuming from its await of *)
(* a drainQueue() that has just returned) runs in that turn's microtask    *)
(* checkpoint, before any timer or network callback, and is part of the    *)
(* same step.                                                              *)
(*                                                                         *)
(* Events are told apart by identity (1, 2, ... in submission order);      *)
(* retries[e] is the `retries` field of the event object e, which the      *)
(* drain reaches through its local `item` even after the object has left   *)
(* the queue.                                                              *)
(***************************************************************************)
EXTENDS Integers, Sequences, FiniteSets, TLC

\* ------------------------------------------------------------------ bounds
\* MAX_QUEUE_SIZE is 10_000 in the source; the model runs it scaled down.
MAX_QUEUE_SIZE == 2
\* number of events submitted in one behaviour
MaxEvents == 4
\* number of concurrent callers of flush()
NumFlushers == 2
\* retry counts are told apart below this value
MaxRetries == 8
\* number of connect() calls that open a stream in one behaviour
MaxSessions == 2
\* number of AbortController objects created in one behaviour
MaxControllers == 3
\* number of records the server writes on one connection
MaxRecords == 2

\* ------------------------------------------------------- program constants
MAX_BACKOFF_MS == 30000
BACKOFF_BASE_MS == 1000
\* doConnect(), line 516: the wait before a new connection attempt
RECONNECT_DELAY_MS == 3000

EventIds == 1..MaxEvents
\* event 0 stands for "no event"
Flushers == 1..NumFlushers
\* the caller of sendEvent() in synchronous mode
Senders == {1}
\* who runs a drainQueue() call: the scheduleFlush timer callback or a flush() call
TimerOwner == 0
Owners == {TimerOwner} \cup Flushers

VARIABLES
  fireAndForget,  \* RovnAgent.fireAndForget (fixed by the constructor)
  eventQueue,     \* RovnAgent.eventQueue: sequence of QueuedEvent (by identity)
  retries,        \* QueuedEvent.retries of each event object
  flushTimer,     \* RovnAgent.flushTimer is set (a 0 ms timer is pending)
  flushing,       \* RovnAgent.flushing
  drain,          \* the drainQueue() activations: position, local `item`, backoff delay
  fpc,            \* position of each flush() caller
  spc,            \* position of each synchronous sendEvent() caller
  apc,            \* position of the requestApproval() caller
  nextId,         \* next event to be submitted
  lastExchange,   \* history: the webhook exchange completed by the step into this state
  lastFlush       \* history: the flush() call that returned in the step into this state

VARIABLES
  agentId,        \* RovnAgent.agentId ("null" when not set)
  sseController,  \* RovnAgent.sseController: an AbortController (0 for null)
  abortCalls,     \* number of abort() calls made on each AbortController
  nextCtl,        \* next AbortController to be created
  sessions,       \* one per connect() call that went through: its closure
                  \* (reconnect) and the position of its doConnect() chain
  lastStream      \* history: what the stream client did in the step into this state

VARIABLES
  timers,         \* number of pending timers that scheduleFlush() has set
  attempted       \* history: the latest event the drain worker has issued a request for

queueVars == <<fireAndForget, eventQueue, retries, flushTimer, timers, flushing, drain,
               attempted, fpc,
               spc, apc, nextId, lastExchange, lastFlush>>
streamVars == <<agentId, sseController, abortCalls, nextCtl, sessions, lastStream>>
VARIABLES
  pending,        \* bytes the server has written on the first connection, not read yet
  written,        \* history: number of records the server has written
  received,       \* history: the bytes read on the first connection
  dispatched,     \* history: the handler calls made on the first connection
  seenId          \* history: the most recent `id: ` line read by the first connect() call

readVars == <<pending, written, received, dispatched, seenId>>
VARIABLES
  guardrailCache, \* RovnAgent.guardrailCache
  now,            \* Date.now()
  gpc,            \* each getGuardrailRemaining() caller: position, metric, local `now`
  lastCall,       \* history: what the guardrail helper did in the step into this state
  fetched,        \* history: the list answered by the most recent successful GET
  invalidated,    \* history: invalidateGuardrailCache() was called and no call started since
  window          \* history: the calls since the first one, and the GETs they issued

cacheVars == <<guardrailCache, now, gpc, lastCall, fetched, invalidated, window>>

VARIABLES
  tool,           \* the running call of a governed wrapper: position, what the check gave, event reported
  lastTool        \* history: how the wrapper call that ended in the step into this state ended

toolVars == <<tool, lastTool>>

VARIABLES
  config,         \* mcp-server: config.apiKey, config.agentId (loaded: createConfig has run)
  argvKey,        \* mcp-server: the --api-key argument or ROVN_API_KEY, '' when absent
  rpc,            \* mcp-server: position of each rovn_register call
  lastRegister    \* history: what rovn_register did in the step into this state

mcpVars == <<config, argvKey, rpc, lastRegister>>
vars == <<queueVars, streamVars, readVars, cacheVars, toolVars, mcpVars>>

\* callers of getGuardrailRemaining(), refreshes of the clock
NumCallers == 2
MaxPeriods == 1
Callers == 1..NumCallers
GUARDRAIL_CACHE_TTL_MS == 60000

Range(s) == {s[i] : i \in 1..Len(s)}
Min(a, b) == IF a < b THEN a ELSE b

RECURSIVE Pow2(_)
Pow2(n) == IF n = 0 THEN 1 ELSE 2 * Pow2(n - 1)

\* ---------------------------------------------------------------- Transport
\* A reply of fetch(): status 0 stands for "fetch rejected, no response".
\* ctype is the Content-Type class ("html" for text/html, "json" for any other), body what res.json() will find:
\* "ok" JSON with success true, "fail" JSON without a true success flag,
\* "garbage" a body that is no JSON.
\* An HTML page is never JSON.
Statuses == {200, 404, 429, 503}
NetworkFailure == [status |-> 0, ctype |-> "none", body |-> "none"]
Responses ==
  {NetworkFailure} \cup
  [status : Statuses, ctype : {"json"}, body : {"ok", "fail", "garbage"}] \cup
  [status : Statuses, ctype : {"html"}, body : {"garbage"}]

ResOk(resp) == resp.status >= 200 /\ resp.status <= 299

\* request(): what the call returns or throws for a reply
request(resp) ==
  IF resp.status = 0 THEN [kind |-> "TypeError", statusCode |-> 0]
  ELSE IF ~ResOk(resp) /\ resp.ctype = "html"
    THEN [kind |-> "RovnError", statusCode |-> resp.status]
  ELSE IF resp.body = "garbage" THEN [kind |-> "SyntaxError", statusCode |-> 0]
  ELSE IF resp.body = "fail" THEN [kind |-> "RovnError", statusCode |-> resp.status]
  ELSE [kind |-> "ok", statusCode |-> resp.status]

\* an isRetryable() that goes by the status code alone
isRetryable_ByStatusOnly(err) == err.statusCode >= 500 \/ err.statusCode = 429

\* isRetryable(), lines 243-250
isRetryable(err) ==
  IF err.kind = "RovnError"
    THEN err.statusCode >= 500 \/ err.statusCode = 429
    ELSE TRUE

\* a backoff without the cap
backoffDelay_NoCap(r) == BACKOFF_BASE_MS * Pow2(r)

\* Math.min(1000 * Math.pow(2, item.retries), MAX_BACKOFF_MS)
backoffDelay(r) == Min(BACKOFF_BASE_MS * Pow2(r), MAX_BACKOFF_MS)

\* -------------------------------------------------------------- Event queue
\* a shift() that removes nothing
shift_None(q) == q

\* Array.prototype.shift(): removes the first element, if any
shift(q) == IF Len(q) = 0 THEN q ELSE Tail(q)

\* an enqueue() without the overflow check
enqueue_NoOverflowCheck(q, e) == Append(q, e)

\* an enqueue() that makes room by discarding the newest queued event
enqueue_DropNewest(q, e) ==
  IF Len(q) >= MAX_QUEUE_SIZE THEN Append(SubSeq(q, 1, Len(q) - 1), e) ELSE Append(q, e)

\* an enqueue() that puts the new event at the front
enqueue_AtFront(q, e) ==
  IF Len(q) >= MAX_QUEUE_SIZE THEN <<e>> \o shift(q) ELSE <<e>> \o q

\* enqueue(): the queue after the overflow check and the push
enqueue(q, e) ==
  IF Len(q) >= MAX_QUEUE_SIZE THEN Append(shift(q), e) ELSE Append(q, e)

\* a scheduleFlush() without its guard
setsTimeout_Always(timer, busy) == TRUE

\* scheduleFlush(), line 264: whether the call goes on to setTimeout
setsTimeout(timer, busy) == ~(timer \/ busy)

\* a scheduleFlush() that never arms the timer
scheduleFlush_Never(timer, busy) == timer

\* scheduleFlush(): whether flushTimer is set afterwards
scheduleFlush(timer, busy) == IF timer \/ busy THEN timer ELSE TRUE

\* scheduleFlush(), line 265: the pending timers afterwards, n before
armed(n, timer, busy) ==
  IF setsTimeout(timer, busy) /\ scheduleFlush(timer, busy) THEN n + 1 ELSE n

NoDrain == [pc |-> "none", item |-> 0, delayMs |-> 0]
NoExchange == [by |-> "none", item |-> 0, resp |-> NetworkFailure, result |-> "none"]
NoFlush == [f |-> 0, path |-> "none", timerAtCall |-> FALSE, rejected |-> FALSE]

AgentIds == {"a1", "a2"}
ControllerIds == 1..MaxControllers
SessionIds == 1..MaxSessions
\* lastEventId <<>> stands for null and for '' (the code only tests its truth)
NoHeader == [present |-> FALSE, value |-> <<>>]
NoSession == [pc |-> "none", ctl |-> 0, reconnect |-> FALSE, attempt |-> 0, delayMs |-> 0,
              lastEventId |-> <<>>, header |-> NoHeader, buffer |-> <<>>]
NoId == [seen |-> FALSE, value |-> <<>>]
NoStream == [op |-> "none", arg |-> 0, optId |-> "undefined"]

\* no wrapper call is running; no wrapper call has ended
NoTool == [pc |-> "idle", w |-> "none", check |-> "none", ev |-> 0]
NoToolResult == [w |-> "none", result |-> "none", error |-> "none", check |-> "none"]

\* mcp-server: the module is not loaded yet; nothing done by rovn_register
NoConfig == [loaded |-> FALSE, apiKey |-> "", agentId |-> ""]
NoRegister == [r |-> 0, op |-> "none", validation |-> "none", success |-> FALSE]
\* concurrent rovn_register tool calls
NumRegistrants == 2
Registrants == 1..NumRegistrants

\* guardrailCache = null (line 186)
NoCache == [set |-> FALSE, data |-> <<>>, cachedAt |-> 0]
\* the `null` that getGuardrailRemaining() returns
Null == [isNull |-> TRUE, value |-> 0]
NoCaller == [pc |-> "idle", metric |-> "none", now |-> 0]
NoCall == [op |-> "none", metric |-> "none", result |-> Null, afterInvalidate |-> FALSE]
NoWindow == [first |-> -1, gets |-> 0, clean |-> TRUE]
\* the calls are no longer all successful, within the TTL of the first and
\* without an invalidateGuardrailCache(): nothing more is recorded about them
Closed == [first |-> -1, gets |-> 0, clean |-> FALSE]

Active(d) == {o \in Owners : d[o].pc # "none"}

Init ==
  /\ fireAndForget \in BOOLEAN
  /\ eventQueue = <<>>
  /\ retries = [e \in EventIds |-> 0]
  /\ flushTimer = FALSE
  /\ timers = 0
  /\ attempted = 0
  /\ flushing = FALSE
  /\ drain = [o \in Owners |-> NoDrain]
  /\ fpc = [f \in Flushers |-> "idle"]
  /\ spc = [s \in Senders |-> [pc |-> "idle", ev |-> 0]]
  /\ apc = "idle"
  /\ nextId = 1
  /\ lastExchange = NoExchange
  /\ lastFlush = NoFlush
  /\ agentId = "null"
  /\ sseController = 0
  /\ abortCalls = [c \in ControllerIds |-> 0]
  /\ nextCtl = 1
  /\ sessions = [k \in SessionIds |-> NoSession]
  /\ lastStream = NoStream
  /\ pending = <<>>
  /\ written = 0
  /\ received = <<>>
  /\ dispatched = <<>>
  /\ seenId = NoId
  /\ guardrailCache = NoCache
  /\ now = 0
  /\ gpc = [c \in Callers |-> NoCaller]
  /\ lastCall = NoCall
  /\ fetched = <<>>
  /\ invalidated = FALSE
  /\ window = NoWindow
  /\ tool = NoTool
  /\ lastTool = NoToolResult
  /\ config = NoConfig
  /\ argvKey = ""
  /\ rpc = [r \in Registrants |-> "idle"]
  /\ lastRegister = NoRegister


\* ------------------------------------------------------------- Drain worker
\* a drainQueue() without its re-entrancy guard
drainQueueEnters_NoGuard(busy) == TRUE

\* drainQueue(), line 277: the call goes on only when no drain is running
drainQueueEnters(busy) == ~busy

\* flush() call f returns: by which path, and whether it cancelled a pending timer
Returned(f, path, timerAtCall) ==
  [f |-> f, path |-> path, timerAtCall |-> timerAtCall, rejected |-> FALSE]

\* flush() call f is rejected: the error of its drainQueue() call passes through
\* `await this.drainQueue()`, which flush() does not guard
Rejected(f, path) ==
  [f |-> f, path |-> path, timerAtCall |-> FALSE, rejected |-> TRUE]

\* The `while` test of drainQueue() with queue q and retry counts r, run by o:
\* either the next request is issued for the event at the front, or the loop
\* ends, `finally` clears flushing, and a flush() call awaiting this drain returns.
\* fp is fpc as the caller left it.  Events no longer referenced are forgotten.
WhileLoop(o, q, r, fp) ==
  /\ eventQueue' = q
  /\ retries' = [e \in EventIds |-> IF e \in Range(q) THEN r[e] ELSE 0]
  /\ IF Len(q) > 0
       THEN /\ drain' = [drain EXCEPT ![o] = [pc |-> "request", item |-> Head(q), delayMs |-> 0]]
            /\ attempted' = IF Head(q) > attempted THEN Head(q) ELSE attempted
            /\ flushing' = TRUE
            /\ fpc' = fp
            /\ lastFlush' = NoFlush
       ELSE /\ drain' = [drain EXCEPT ![o] = NoDrain]
            /\ attempted' = attempted
            /\ flushing' = FALSE
            /\ IF o \in Flushers
                 THEN /\ fpc' = [fp EXCEPT ![o] = "idle"]
                      /\ lastFlush' = Returned(o, fp[o], FALSE)
                 ELSE /\ fpc' = fp
                      /\ lastFlush' = NoFlush

\* enqueue(event, data): overflow check, push with retries 0, scheduleFlush()
Enqueue(e) ==
  /\ eventQueue' = enqueue(eventQueue, e)
  /\ retries' = [retries EXCEPT ![e] = 0]
  /\ flushTimer' = scheduleFlush(flushTimer, flushing)
  /\ timers' = armed(timers, flushTimer, flushing)

\* a sendEvent() that takes the direct path in either mode
sendEventQueues_Never(faf) == FALSE

\* sendEvent(), line 345: in fire-and-forget mode the event goes to the queue
sendEventQueues(faf) == faf

\* sendEvent() in fire-and-forget mode: enqueue and return
SendEventQueued ==
  /\ sendEventQueues(fireAndForget)
  /\ nextId <= MaxEvents
  /\ Enqueue(nextId)
  /\ nextId' = nextId + 1
  /\ lastExchange' = NoExchange
  /\ lastFlush' = NoFlush
  /\ UNCHANGED <<fireAndForget, flushing, drain, attempted, fpc, spc, apc, streamVars, readVars, cacheVars, toolVars, mcpVars>>

\* sendEvent() in synchronous mode: the direct request is issued
SendEventCall(s) ==
  /\ ~sendEventQueues(fireAndForget)
  /\ spc[s].pc = "idle"
  /\ nextId <= MaxEvents
  /\ spc' = [spc EXCEPT ![s] = [pc |-> "request", ev |-> nextId]]
  /\ nextId' = nextId + 1
  /\ lastExchange' = NoExchange
  /\ lastFlush' = NoFlush
  /\ UNCHANGED <<fireAndForget, eventQueue, retries, flushTimer, timers, flushing, drain, attempted, fpc, apc, streamVars, readVars, cacheVars, toolVars, mcpVars>>

\* sendEvent() in synchronous mode: the reply of the direct request
SendEventReply(s, resp) ==
  /\ spc[s].pc = "request"
  /\ LET ev == spc[s].ev
         err == request(resp)
     IN  /\ spc' = [spc EXCEPT ![s] = [pc |-> "idle", ev |-> 0]]
         /\ IF err.kind = "ok"
              THEN /\ lastExchange' = [by |-> "sync", item |-> ev, resp |-> resp, result |-> "ok"]
                   /\ UNCHANGED <<eventQueue, retries, flushTimer, timers>>
            ELSE IF isRetryable(err)
              THEN /\ lastExchange' = [by |-> "sync", item |-> ev, resp |-> resp, result |-> "queued"]
                   /\ Enqueue(ev)
              ELSE /\ lastExchange' = [by |-> "sync", item |-> ev, resp |-> resp, result |-> "thrown"]
                   /\ UNCHANGED <<eventQueue, retries, flushTimer, timers>>
  /\ lastFlush' = NoFlush
  /\ UNCHANGED <<fireAndForget, flushing, drain, attempted, fpc, nextId, apc, streamVars, readVars, cacheVars, toolVars, mcpVars>>

\* the callback of the scheduleFlush timer: clears flushTimer, calls drainQueue()
TimerFire ==
  /\ timers > 0
  /\ timers' = timers - 1
  /\ flushTimer' = FALSE
  /\ IF drainQueueEnters(flushing)
       THEN WhileLoop(TimerOwner, eventQueue, retries, fpc)
       ELSE /\ lastFlush' = NoFlush
            /\ UNCHANGED <<eventQueue, retries, drain, attempted, flushing, fpc>>
  /\ lastExchange' = NoExchange
  /\ UNCHANGED <<fireAndForget, spc, nextId, apc, streamVars, readVars, cacheVars, toolVars, mcpVars>>

\* item.retries++ ; the value MaxRetries stands for "MaxRetries or more"
Increment(r) == Min(r + 1, MaxRetries)

\* a drainQueue() whose handler lets every error but a RovnError pass
drainCatches_OnlyRovnError(err) == err.kind = "RovnError"

\* drainQueue(), line 287: `catch (err)` takes every error of the request
drainCatches(err) == TRUE

\* An error leaves drainQueue(): `finally` clears flushing, the call is rejected,
\* and with it the flush() call that awaits it (for the timer callback, which
\* does not await, the rejection is unhandled).
Throws(o, item, resp) ==
  /\ lastExchange' = [by |-> "drain", item |-> item, resp |-> resp, result |-> "raised"]
  /\ drain' = [drain EXCEPT ![o] = NoDrain]
  /\ flushing' = FALSE
  /\ IF o \in Flushers
       THEN /\ fpc' = [fpc EXCEPT ![o] = "idle"]
            /\ lastFlush' = Rejected(o, fpc[o])
       ELSE /\ fpc' = fpc
            /\ lastFlush' = NoFlush
  /\ UNCHANGED <<eventQueue, retries, attempted>>

\* drainQueue(): the reply of the request for `item`
DrainReply(o, resp) ==
  /\ drain[o].pc = "request"
  /\ LET item == drain[o].item
         err == request(resp)
     IN  IF err.kind = "ok"
           THEN /\ lastExchange' = [by |-> "drain", item |-> item, resp |-> resp, result |-> "ok"]
                /\ WhileLoop(o, shift(eventQueue), retries, fpc)
         ELSE IF ~drainCatches(err)
           THEN Throws(o, item, resp)
         ELSE IF isRetryable(err)
           THEN /\ lastExchange' = [by |-> "drain", item |-> item, resp |-> resp, result |-> "retry"]
                /\ drain' = [drain EXCEPT ![o] = [pc |-> "backoff", item |-> item,
                                                  delayMs |-> backoffDelay(retries[item])]]
                /\ retries' = [retries EXCEPT ![item] = Increment(@)]
                /\ lastFlush' = NoFlush
                /\ UNCHANGED <<eventQueue, flushing, fpc, attempted>>
           ELSE /\ lastExchange' = [by |-> "drain", item |-> item, resp |-> resp, result |-> "dropped"]
                /\ WhileLoop(o, shift(eventQueue), retries, fpc)
  /\ UNCHANGED <<fireAndForget, flushTimer, timers, spc, nextId, apc, streamVars, readVars, cacheVars, toolVars, mcpVars>>

\* drainQueue(): the backoff timer fires, the loop tests the queue again
BackoffWake(o) ==
  /\ drain[o].pc = "backoff"
  /\ WhileLoop(o, eventQueue, retries, fpc)
  /\ lastExchange' = NoExchange
  /\ UNCHANGED <<fireAndForget, flushTimer, timers, spc, nextId, apc, streamVars, readVars, cacheVars, toolVars, mcpVars>>

\* ---------------------------------------------------------- requestApproval
\* requestApproval(), line 394: the request is issued, in either mode
RequestApprovalCall ==
  /\ apc = "idle"
  /\ apc' = "request"
  /\ lastExchange' = NoExchange
  /\ lastFlush' = NoFlush
  /\ UNCHANGED <<fireAndForget, eventQueue, retries, flushTimer, timers, flushing, drain, attempted,
                 fpc, spc, nextId, streamVars, readVars, cacheVars, toolVars, mcpVars>>

\* a requestApproval() that treats a failure as sendEvent() does
approvalThrows_UnlessRetryable(err) == ~isRetryable(err)

\* requestApproval(), lines 394-397: the await is not guarded, every error of
\* request() is thrown to the caller
approvalThrows(err) == TRUE

\* requestApproval(): the reply; the call returns approval_id or throws
RequestApprovalReply(resp) ==
  /\ apc = "request"
  /\ apc' = "idle"
  /\ LET err == request(resp)
     IN  IF err.kind = "ok"
           THEN /\ lastExchange' = [by |-> "approval", item |-> 0, resp |-> resp, result |-> "ok"]
                /\ UNCHANGED <<eventQueue, retries, flushTimer, timers>>
         ELSE IF approvalThrows(err)
           THEN /\ lastExchange' = [by |-> "approval", item |-> 0, resp |-> resp, result |-> "thrown"]
                /\ UNCHANGED <<eventQueue, retries, flushTimer, timers>>
           ELSE /\ lastExchange' = [by |-> "approval", item |-> 0, resp |-> resp, result |-> "queued"]
                /\ UNCHANGED <<retries>>
                /\ eventQueue' = eventQueue
                /\ flushTimer' = scheduleFlush(flushTimer, flushing)
                /\ timers' = armed(timers, flushTimer, flushing)
  /\ lastFlush' = NoFlush
  /\ UNCHANGED <<fireAndForget, flushing, drain, attempted, fpc, spc, nextId, streamVars, readVars, cacheVars, toolVars, mcpVars>>

\* ------------------------------------------------------------------- flush
\* a flush() that enters the spin-wait whatever the flag says
flushWaits_Always(busy) == TRUE

\* flush(), line 418: wait for a running drain
flushWaits(busy) == busy
\* flush(), line 430: drain when called with a non-empty queue
flushDrainsNow(q) == Len(q) > 0
\* a flush() that returns after the wait without looking at the queue
flushDrainsAfterWait_Never(q) == FALSE

\* flush(), line 424: drain again when events arrived during the wait
flushDrainsAfterWait(q) == Len(q) > 0

\* flush() up to its first suspension point, or to its return
flush(f) ==
  /\ fpc[f] = "idle"
  /\ timers' = IF flushTimer THEN timers - 1 ELSE timers
  /\ flushTimer' = FALSE
  /\ IF flushWaits(flushing)
       THEN /\ fpc' = [fpc EXCEPT ![f] = "spin"]
            /\ lastFlush' = NoFlush
            /\ UNCHANGED <<eventQueue, retries, drain, attempted, flushing>>
     ELSE IF flushDrainsNow(eventQueue)
       THEN IF drainQueueEnters(flushing)
              THEN WhileLoop(f, eventQueue, retries, [fpc EXCEPT ![f] = "drain"])
              ELSE /\ lastFlush' = Returned(f, "drain", flushTimer)
                   /\ UNCHANGED <<eventQueue, retries, drain, attempted, flushing, fpc>>
       ELSE /\ lastFlush' = Returned(f, "fast", flushTimer)
            /\ UNCHANGED <<eventQueue, retries, drain, attempted, flushing, fpc>>
  /\ lastExchange' = NoExchange

\* a call of flush() by the application
FlushCall(f) ==
  /\ flush(f)
  /\ UNCHANGED <<fireAndForget, spc, nextId, apc, streamVars, readVars, cacheVars, toolVars, mcpVars>>

\* flush(): the 50 ms timer of one turn of the spin-wait fires
FlushSpinWake(f) ==
  /\ fpc[f] = "spin"
  /\ IF flushing
       THEN /\ lastFlush' = NoFlush
            /\ UNCHANGED <<eventQueue, retries, drain, attempted, flushing, fpc>>
     ELSE IF flushDrainsAfterWait(eventQueue)
       THEN IF drainQueueEnters(flushing)
              THEN WhileLoop(f, eventQueue, retries, [fpc EXCEPT ![f] = "spindrain"])
              ELSE /\ fpc' = [fpc EXCEPT ![f] = "idle"]
                   /\ lastFlush' = Returned(f, "spindrain", FALSE)
                   /\ UNCHANGED <<eventQueue, retries, drain, attempted, flushing>>
       ELSE /\ fpc' = [fpc EXCEPT ![f] = "idle"]
            /\ lastFlush' = Returned(f, "spin", FALSE)
            /\ UNCHANGED <<eventQueue, retries, drain, attempted, flushing>>
  /\ lastExchange' = NoExchange
  /\ UNCHANGED <<fireAndForget, flushTimer, timers, spc, nextId, apc, streamVars, readVars, cacheVars, toolVars, mcpVars>>

\* Spec follows every retry count exactly: a reply that would take a count
\* to MaxRetries or beyond it is left out.
CountedExactly(o, resp) ==
  (drain[o].pc = "request" /\ request(resp).kind # "ok" /\ isRetryable(request(resp)))
    => retries[drain[o].item] + 1 < MaxRetries

DrainReplyCounted == \E o \in Owners, resp \in Responses : CountedExactly(o, resp) /\ DrainReply(o, resp)
DrainReplyAny == \E o \in Owners, resp \in Responses : DrainReply(o, resp)
SendEventCalls == \E s \in Senders : SendEventCall(s)
SendEventReplies == \E s \in Senders, resp \in Responses : SendEventReply(s, resp)
BackoffWakes == \E o \in Owners : BackoffWake(o)
FlushCalls == \E f \in Flushers : FlushCall(f)
FlushSpinWakes == \E f \in Flushers : FlushSpinWake(f)
RequestApprovalReplies == \E resp \in Responses : RequestApprovalReply(resp)

Next ==
  \/ SendEventQueued
  \/ SendEventCalls
  \/ SendEventReplies
  \/ TimerFire
  \/ DrainReplyCounted
  \/ BackoffWakes
  \/ FlushCalls
  \/ FlushSpinWakes

Spec == Init /\ [][Next]_vars

\* The same program with no bound on the number of retries (counts of
\* MaxRetries or more are not told apart), and with the scheduling the event
\* loop and the network give: a pending timer fires, a request is answered.
NextUnbounded ==
  \/ SendEventQueued
  \/ SendEventCalls
  \/ SendEventReplies
  \/ TimerFire
  \/ DrainReplyAny
  \/ BackoffWakes
  \/ FlushCalls
  \/ FlushSpinWakes

Fairness ==
  /\ WF_vars(TimerFire)
  /\ WF_vars(DrainReplyAny)
  /\ WF_vars(BackoffWakes)
  /\ WF_vars(SendEventReplies)
  /\ WF_vars(FlushSpinWakes)

SpecUnbounded == Init /\ [][NextUnbounded]_vars /\ Fairness

\* The scheduling of the event loop and the network, timer by timer and
\* request by request: a pending timer fires, a request is answered.
FairnessCounted ==
  /\ WF_vars(TimerFire)
  /\ \A o \in Owners : WF_vars(\E resp \in Responses : CountedExactly(o, resp) /\ DrainReply(o, resp))
  /\ \A o \in Owners : WF_vars(BackoffWake(o))
  /\ \A f \in Flushers : WF_vars(FlushSpinWake(f))

\* The background delivery of a fire-and-forget client and its flush() calls
NextLive ==
  \/ SendEventQueued
  \/ TimerFire
  \/ DrainReplyCounted
  \/ BackoffWakes
  \/ FlushCalls
  \/ FlushSpinWakes

\* ... under that scheduling: finitely many events, and each of them fails
\* retryably fewer than MaxRetries times
SpecLive == Init /\ [][NextLive]_vars /\ FairnessCounted

\* The client of an application that submits events and asks for approvals
\* (and does not call flush()): the requestApproval() exchanges run next to
\* the direct requests of sendEvent() and to the drain worker.
NextDirect ==
  \/ SendEventQueued
  \/ SendEventCalls
  \/ SendEventReplies
  \/ TimerFire
  \/ DrainReplyCounted
  \/ BackoffWakes
  \/ RequestApprovalCall
  \/ RequestApprovalReplies

SpecDirect == Init /\ [][NextDirect]_vars

\* ------------------------------------------------------------ Stream client
\* JavaScript truthiness of an id: null, undefined and "" are falsy
Truthy(x) == x \notin {"null", "undefined", ""}

\* what the caller passes as options.agentId and options.reconnect
OptIds == {"undefined", ""} \cup AgentIds
ReconnectOpts == {"undefined", "true", "false"}

\* connect(), line 451: options?.agentId ?? this.agentId
targetId(optId, aid) == IF optId # "undefined" THEN optId ELSE aid

\* connect(), line 452: if (targetId) this.agentId = targetId
resolveAgentId(optId, aid) ==
  IF Truthy(targetId(optId, aid)) THEN targetId(optId, aid) ELSE aid

\* a connect() without the agentId check
connectThrows_Never(aid) == FALSE

\* connect(), line 454: if (!this.agentId) throw
connectThrows(aid) == ~Truthy(aid)

\* connect(), line 458: options?.reconnect !== false
reconnectOf(opt) == opt # "false"

\* a wait that grows with the number of attempts
reconnectDelay_Growing(n) == RECONNECT_DELAY_MS * Pow2(n - 1)

\* doConnect(), line 516: the wait after the n-th attempt of a connect() call
reconnectDelay(n) == RECONNECT_DELAY_MS

\* a disconnect() that keeps the handle
handleAfterDisconnect_Kept(h) == h

\* disconnect(), line 527: this.sseController = null
handleAfterDisconnect(h) == 0

\* an abort that a connect() call only notices while no drain is running
signalAborted_WhenNotDraining(k) == abortCalls[sessions[k].ctl] > 0 /\ ~flushing

\* the signal given to the pending fetch() or read() of session k was aborted
signalAborted(k) == abortCalls[sessions[k].ctl] > 0

\* getInfo(), line 336: the id the server reports becomes the agentId
GetInfo(id) ==
  /\ agentId = "null"
  /\ agentId' = id
  /\ lastStream' = [op |-> "getInfo", arg |-> 0, optId |-> "undefined"]
  /\ UNCHANGED <<sseController, abortCalls, nextCtl, sessions, queueVars, readVars, cacheVars, toolVars, mcpVars>>

\* a doConnect() that sends no Last-Event-ID header
lastEventIdHeader_Never(lei) == NoHeader

\* doConnect(), line 466: if (lastEventId) headers['Last-Event-ID'] = lastEventId
lastEventIdHeader(lei) ==
  IF lei # <<>> THEN [present |-> TRUE, value |-> lei] ELSE NoHeader

\* doConnect() up to its fetch(): a new AbortController becomes the handle and
\* the handshake of session k is pending on its signal
DoConnect(k, rc, n, lei) ==
  /\ nextCtl <= MaxControllers
  /\ sseController' = nextCtl
  /\ nextCtl' = nextCtl + 1
  /\ sessions' = [sessions EXCEPT ![k] =
                    [pc |-> "connecting", ctl |-> nextCtl, reconnect |-> rc,
                     attempt |-> n, delayMs |-> 0,
                     lastEventId |-> lei, header |-> lastEventIdHeader(lei),
                     buffer |-> <<>>]]

\* connect(handler, options): resolves the agent id, throws without one,
\* else starts doConnect()
Connect(optId, rcOpt) ==
  LET aid == resolveAgentId(optId, agentId)
      free == {k \in SessionIds : sessions[k].pc = "none"}
  IN  /\ agentId' = aid
      /\ IF connectThrows(aid)
           THEN /\ lastStream' = [op |-> "connectThrew", arg |-> 0, optId |-> optId]
                /\ UNCHANGED <<sseController, nextCtl, sessions>>
           ELSE /\ free # {}
                /\ LET k == CHOOSE k \in free : \A j \in free : k <= j
                   IN  /\ DoConnect(k, reconnectOf(rcOpt), 1, <<>>)
                       /\ lastStream' = [op |-> "connect", arg |-> k, optId |-> optId]
      /\ UNCHANGED <<abortCalls, queueVars, readVars, cacheVars, toolVars, mcpVars>>

\* doConnect(), lines 512-519: the catch for an error that is no AbortError:
\* onDisconnect, then the wait before the next attempt, or the end
Failed(s) ==
  IF s.reconnect
    THEN [s EXCEPT !.pc = "waiting", !.delayMs = reconnectDelay(s.attempt)]
    ELSE [s EXCEPT !.pc = "ended"]

Failure(k) == sessions' = [sessions EXCEPT ![k] = Failed(sessions[k])]

HandshakeOutcomes == {"ok", "status", "nobody", "network"}

\* doConnect(): fetch() settles: a 2xx response with a body ("ok"), a non-2xx
\* response ("status"), a response without body ("nobody"), or a rejection
\* that is no abort ("network")
HandshakeReply(k, out) ==
  /\ sessions[k].pc = "connecting"
  /\ ~signalAborted(k)
  /\ IF out = "ok"
       THEN sessions' = [sessions EXCEPT ![k].pc = "reading"]
       ELSE Failure(k)
  /\ lastStream' = [op |-> out, arg |-> k, optId |-> "undefined"]
  /\ UNCHANGED <<agentId, sseController, abortCalls, nextCtl, queueVars, readVars, cacheVars, toolVars, mcpVars>>

ReadOutcomes == {"done", "readError"}

\* doConnect(): reader.read() settles without data: the end of the stream
\* (`break`, the function returns), or a rejection that is no abort
ReadReply(k, out) ==
  /\ sessions[k].pc = "reading"
  /\ ~signalAborted(k)
  /\ IF out = "readError" THEN Failure(k)
     ELSE sessions' = [sessions EXCEPT ![k].pc = "ended"]
  /\ lastStream' = [op |-> out, arg |-> k, optId |-> "undefined"]
  /\ UNCHANGED <<agentId, sseController, abortCalls, nextCtl, queueVars, readVars, cacheVars, toolVars, mcpVars>>

\* ------------------------------------------------------------- read loop
\* Text is a sequence of symbols: "NL" the line feed, "ID", "EV", "DA" the
\* prefixes `id: `, `event: `, `data: `; "a" and "y" characters of a JSON
\* value, "z" a character that makes a text no JSON.
Symbols == {"NL", "ID", "EV", "DA", "a", "y", "z"}

\* String.prototype.split('\n')
RECURSIVE split(_)
split(s) ==
  IF \A i \in 1..Len(s) : s[i] # "NL"
    THEN <<s>>
    ELSE LET i == CHOOSE i \in 1..Len(s) : s[i] = "NL" /\ \A j \in 1..(i - 1) : s[j] # "NL"
         IN  <<SubSeq(s, 1, i - 1)>> \o split(SubSeq(s, i + 1, Len(s)))

\* line.startsWith(prefix)
startsWith(line, prefix) == Len(line) > 0 /\ line[1] = prefix

\* JSON.parse(eventData) returns
JSONparse(eventData) == \A i \in 1..Len(eventData) : eventData[i] \in {"a", "y"}

\* a dispatch whose parse error is not caught
parseErrorCaught_Never(eventData) == FALSE

\* doConnect(), lines 504-506: `catch { }` around JSON.parse and the handler call
parseErrorCaught(eventData) == TRUE

\* doConnect(), lines 492-509: the `for` loop over the complete lines of one
\* read; st holds eventType, eventData, lastEventId, the handler calls made,
\* and whether an error left the loop
RECURSIVE processLines(_, _)
processLines(lines, st) ==
  IF lines = <<>> \/ st.threw THEN st
  ELSE LET line == Head(lines)
       IN  processLines(Tail(lines),
             IF startsWith(line, "ID") THEN [st EXCEPT !.lastEventId = Tail(line)]
             ELSE IF startsWith(line, "EV") THEN [st EXCEPT !.eventType = Tail(line)]
             ELSE IF startsWith(line, "DA") THEN [st EXCEPT !.eventData = Tail(line)]
             ELSE IF line = <<>> /\ st.eventType # <<>> /\ st.eventData # <<>>
               THEN IF JSONparse(st.eventData)
                      THEN [st EXCEPT !.calls = Append(@, [eventType |-> st.eventType,
                                                           data |-> st.eventData]),
                                      !.eventType = <<>>, !.eventData = <<>>]
                    ELSE IF parseErrorCaught(st.eventData)
                      THEN [st EXCEPT !.eventType = <<>>, !.eventData = <<>>]
                      ELSE [st EXCEPT !.threw = TRUE]
             ELSE st)

\* doConnect(), lines 486-510: one turn of the `while` loop for a chunk:
\* the buffer is extended and split, the last piece is kept, eventType and
\* eventData start empty, the complete lines are processed
processChunk(buffer, lastEventId, chunk) ==
  LET lines == split(buffer \o chunk)
      st == processLines(SubSeq(lines, 1, Len(lines) - 1),
                         [eventType |-> <<>>, eventData |-> <<>>,
                          lastEventId |-> lastEventId, calls |-> <<>>, threw |-> FALSE])
  IN  [buffer |-> lines[Len(lines)], lastEventId |-> st.lastEventId,
       calls |-> st.calls, threw |-> st.threw]

\* doConnect(): reader.read() settles with a chunk
ReadChunk(k, chunk) ==
  /\ sessions[k].pc = "reading"
  /\ ~signalAborted(k)
  /\ LET p == processChunk(sessions[k].buffer, sessions[k].lastEventId, chunk)
     IN  IF p.threw
           THEN /\ sessions' = [sessions EXCEPT ![k] =
                                  Failed([@ EXCEPT !.lastEventId = p.lastEventId])]
                /\ lastStream' = [op |-> "parseError", arg |-> k, optId |-> "undefined"]
           ELSE /\ sessions' = [sessions EXCEPT ![k].buffer = p.buffer,
                                                ![k].lastEventId = p.lastEventId]
                /\ lastStream' = [op |-> IF p.calls # <<>> THEN "record" ELSE "partial",
                                  arg |-> k, optId |-> "undefined"]
  /\ UNCHANGED <<agentId, sseController, abortCalls, nextCtl, queueVars, cacheVars, toolVars, mcpVars>>

\* records a server writes: a record, a record with an id, a record whose
\* data is no JSON; and single lines
Record1 == <<"EV", "a", "NL", "DA", "a", "NL", "NL">>
Record2 == <<"ID", "a", "NL", "EV", "a", "NL", "DA", "a", "a", "NL", "NL">>
Record3 == <<"EV", "a", "NL", "DA", "z", "NL", "NL">>
Records == {Record1, Record2, Record3}
EventLine == <<"EV", "a", "NL">>
IdLines == {<<"ID", "a", "NL">>, <<"ID", "a", "a", "NL">>, <<"ID", "NL">>}

\* doConnect(), line 513: the pending fetch() or read() rejects with an
\* AbortError after abort(): the function returns
Aborted(k) ==
  /\ sessions[k].pc \in {"connecting", "reading"}
  /\ signalAborted(k)
  /\ sessions' = [sessions EXCEPT ![k].pc = "ended"]
  /\ lastStream' = [op |-> "abortReturn", arg |-> k, optId |-> "undefined"]
  /\ UNCHANGED <<agentId, sseController, abortCalls, nextCtl, queueVars, readVars, cacheVars, toolVars, mcpVars>>

\* doConnect(), lines 516-517: the wait is over, doConnect() is called again
ReconnectWake(k) ==
  /\ sessions[k].pc = "waiting"
  /\ DoConnect(k, sessions[k].reconnect, sessions[k].attempt + 1, sessions[k].lastEventId)
  /\ lastStream' = [op |-> "reconnect", arg |-> k, optId |-> "undefined"]
  /\ UNCHANGED <<agentId, abortCalls, queueVars, readVars, cacheVars, toolVars, mcpVars>>

\* disconnect(): this.sseController?.abort(); this.sseController = null
\* (abort counts of 2 or more are not told apart)
disconnect ==
  /\ abortCalls' = IF sseController # 0
                     THEN [abortCalls EXCEPT ![sseController] = Min(@ + 1, 2)]
                     ELSE abortCalls
  /\ sseController' = handleAfterDisconnect(sseController)

\* a call of disconnect() by the application
Disconnect ==
  /\ disconnect
  /\ lastStream' = [op |-> "disconnect", arg |-> sseController, optId |-> "undefined"]
  /\ UNCHANGED <<agentId, nextCtl, sessions, queueVars, readVars, cacheVars, toolVars, mcpVars>>

\* close(), lines 440-443, up to the first suspension point of its flush() or
\* to its return: this.disconnect(); await this.flush()
Close(f) ==
  /\ disconnect
  /\ flush(f)
  /\ lastStream' = [op |-> "close", arg |-> sseController, optId |-> "undefined"]
  /\ UNCHANGED <<fireAndForget, spc, nextId, apc, agentId, nextCtl, sessions,
                 readVars, cacheVars, toolVars, mcpVars>>

GetInfos == \E id \in AgentIds : GetInfo(id)
Connects == \E optId \in OptIds, rcOpt \in ReconnectOpts : Connect(optId, rcOpt)
HandshakeReplies == \E k \in SessionIds, out \in HandshakeOutcomes : HandshakeReply(k, out)
ReadReplies == \E k \in SessionIds, out \in ReadOutcomes : ReadReply(k, out)
Aborteds == \E k \in SessionIds : Aborted(k)
ReconnectWakes == \E k \in SessionIds : ReconnectWake(k)

\* in SpecStream every read brings a whole record or a whole line
ReadChunks ==
  \E k \in SessionIds, chunk \in {Record1, EventLine} :
    ReadChunk(k, chunk) /\ UNCHANGED readVars

NextStream ==
  \/ GetInfos
  \/ Connects
  \/ HandshakeReplies
  \/ ReadChunks
  \/ ReadReplies
  \/ Aborteds
  \/ ReconnectWakes
  \/ Disconnect

\* the Stream Client alone: no event is submitted
SpecStream == Init /\ [][NextStream]_vars

\* the first connect() call of the client
FirstConnect == nextCtl = 1 /\ Connects

\* the server writes a record on the first connection
ServerWrites(rec) ==
  /\ sessions[1].pc = "reading"
  /\ written < MaxRecords
  /\ written' = written + 1
  /\ pending' = pending \o rec
  /\ lastStream' = NoStream
  /\ UNCHANGED <<agentId, sseController, abortCalls, nextCtl, sessions, queueVars,
                 received, dispatched, seenId, cacheVars, toolVars, mcpVars>>

\* a read on the first connection brings the next n bytes
ReadWire(n) ==
  /\ ReadChunk(1, SubSeq(pending, 1, n))
  /\ pending' = SubSeq(pending, n + 1, Len(pending))
  /\ received' = received \o SubSeq(pending, 1, n)
  /\ dispatched' = dispatched \o
       processChunk(sessions[1].buffer, sessions[1].lastEventId, SubSeq(pending, 1, n)).calls
  /\ UNCHANGED <<written, seenId>>

ServerWritesAny == \E rec \in Records : ServerWrites(rec)
ReadWires == \E n \in 1..Len(pending) : ReadWire(n)

\* The read loop of one connection: the server writes records, the reads cut
\* the bytes anywhere.
NextRead ==
  \/ FirstConnect
  \/ HandshakeReplies
  \/ ServerWritesAny
  \/ ReadWires

SpecRead == Init /\ [][NextRead]_vars

\* the identifier of the `id: ` line a chunk starts with
IdOf(chunk) ==
  LET i == CHOOSE i \in 1..Len(chunk) : chunk[i] = "NL" /\ \A j \in 1..(i - 1) : chunk[j] # "NL"
  IN  SubSeq(chunk, 2, i - 1)

\* a read of the first connect() call brings an `id: ` line or a record
ReadLine(chunk) ==
  /\ ReadChunk(1, chunk)
  /\ seenId' = IF chunk[1] = "ID" THEN [seen |-> TRUE, value |-> IdOf(chunk)] ELSE seenId
  /\ UNCHANGED <<pending, written, received, dispatched>>

ReadLines == \E chunk \in IdLines \cup {Record1} : ReadLine(chunk)

\* One connect() call through its connections: ids arrive, connections fail
\* or are closed, the call reconnects.
NextResume ==
  \/ FirstConnect
  \/ HandshakeReplies
  \/ ReadLines
  \/ ReadReplies
  \/ Aborteds
  \/ ReconnectWakes
  \/ Disconnect

SpecResume == Init /\ [][NextResume]_vars

Closes == \E f \in Flushers : Close(f)

\* One connect() call and close(): the connection fails or is closed, the
\* call waits and reconnects, the application shuts the client down.
NextClose ==
  \/ FirstConnect
  \/ HandshakeReplies
  \/ ReadChunks
  \/ ReadReplies
  \/ Aborteds
  \/ ReconnectWakes
  \/ Closes

SpecClose == Init /\ [][NextClose]_vars

\* ------------------------------------------------------------ Guardrail cache
Metrics == {"a", "b"}
G1 == [metric |-> "a", limit_value |-> 100, current_value |-> 60]
G2 == [metric |-> "a", limit_value |-> 5, current_value |-> 9]
G3 == [metric |-> "b", limit_value |-> 10, current_value |-> 10]
\* the guardrail lists the server answers with
Lists == {<<G2, G1>>, <<G1, G3>>}
GuardrailReplies == [ok : {TRUE}, data : Lists] \cup {[ok |-> FALSE, data |-> <<>>]}
\* the values of Date.now(): the ends of the TTL periods and 1 ms after them
Times == {p * GUARDRAIL_CACHE_TTL_MS + j : p \in 0..MaxPeriods, j \in 0..1}

\* a cache that expires when its age reaches the TTL
cacheStale_AtTTL(cache, t) == ~cache.set \/ t - cache.cachedAt >= GUARDRAIL_CACHE_TTL_MS

\* getGuardrailRemaining(), line 571: no cache, or a cache older than the TTL
cacheStale(cache, t) == ~cache.set \/ t - cache.cachedAt > GUARDRAIL_CACHE_TTL_MS

\* Array.prototype.find (line 578): the first guardrail of the metric, <<>> for undefined
RECURSIVE find(_, _)
find(data, metric) ==
  IF data = <<>> THEN <<>>
  ELSE IF Head(data).metric = metric THEN <<Head(data)>>
  ELSE find(Tail(data), metric)

\* a getGuardrailRemaining() that never reports less than 0
remaining_Clamped(data, metric) ==
  LET g == find(data, metric)
      d == g[1].limit_value - g[1].current_value
  IN IF g = <<>> THEN Null ELSE [isNull |-> FALSE, value |-> IF d < 0 THEN 0 ELSE d]

\* getGuardrailRemaining(), lines 578-580
remaining(data, metric) ==
  LET g == find(data, metric)
  IN IF g = <<>> THEN Null
     ELSE [isNull |-> FALSE, value |-> g[1].limit_value - g[1].current_value]

\* history: a call that got past ensureAgentId() at time t and issued g GETs
Started(w, t, g) ==
  IF w.clean /\ (w.first < 0 \/ t - w.first <= GUARDRAIL_CACHE_TTL_MS)
  THEN [first |-> IF w.first < 0 THEN t ELSE w.first, gets |-> w.gets + g, clean |-> TRUE]
  ELSE Closed

\* a getGuardrailRemaining() that does not look for the agent id
ensureAgentId_Unchecked(aid) == TRUE

\* ensureAgentId(), line 208: TRUE when it returns, FALSE when it throws
ensureAgentId(aid) == Truthy(aid)

\* getGuardrailRemaining(metric) up to its await (lines 567-574), or to its
\* return when the cache is fresh (lines 578-580)
GetGuardrailRemaining(c, metric) ==
  /\ gpc[c].pc = "idle"
  /\ IF ~ensureAgentId(agentId) THEN
       /\ lastCall' = [NoCall EXCEPT !.op = "throw", !.metric = metric]
       /\ UNCHANGED <<gpc, invalidated, window>>
     ELSE
       /\ invalidated' = FALSE
       /\ IF cacheStale(guardrailCache, now) THEN
            /\ gpc' = [gpc EXCEPT ![c] = [pc |-> "fetching", metric |-> metric, now |-> now]]
            /\ lastCall' = [op |-> "fetch", metric |-> metric, result |-> Null,
                            afterInvalidate |-> invalidated]
            /\ window' = Started(window, now, 1)
          ELSE
            /\ lastCall' = [op |-> "return", metric |-> metric,
                            result |-> remaining(guardrailCache.data, metric),
                            afterInvalidate |-> invalidated]
            /\ window' = Started(window, now, 0)
            /\ UNCHANGED gpc
  /\ UNCHANGED <<guardrailCache, now, fetched, queueVars, streamVars, readVars, toolVars, mcpVars>>

\* the GET of the guardrail list is answered: the cache is stored with the
\* `now` taken before the await (lines 572-575) and the call returns from it;
\* a request() that throws leaves the cache alone and rejects the call
GuardrailReply(c, resp) ==
  /\ gpc[c].pc = "fetching"
  /\ gpc' = [gpc EXCEPT ![c] = NoCaller]
  /\ IF resp.ok THEN
       /\ guardrailCache' = [set |-> TRUE, data |-> resp.data, cachedAt |-> gpc[c].now]
       /\ fetched' = resp.data
       /\ lastCall' = [op |-> "return", metric |-> gpc[c].metric,
                       result |-> remaining(guardrailCache'.data, gpc[c].metric),
                       afterInvalidate |-> FALSE]
       /\ UNCHANGED window
     ELSE
       /\ lastCall' = [NoCall EXCEPT !.op = "reject", !.metric = gpc[c].metric]
       /\ window' = Closed
       /\ UNCHANGED <<guardrailCache, fetched>>
  /\ UNCHANGED <<now, invalidated, queueVars, streamVars, readVars, toolVars, mcpVars>>

\* invalidateGuardrailCache(), lines 584-586
InvalidateGuardrailCache ==
  /\ guardrailCache' = NoCache
  /\ invalidated' = TRUE
  /\ window' = Closed
  /\ lastCall' = [NoCall EXCEPT !.op = "invalidate"]
  /\ UNCHANGED <<now, gpc, fetched, queueVars, streamVars, readVars, toolVars, mcpVars>>

\* time passes
Advance(t) ==
  /\ t > now
  /\ now' = t
  /\ lastCall' = NoCall
  /\ UNCHANGED <<guardrailCache, gpc, fetched, invalidated, window,
                 queueVars, streamVars, readVars, toolVars, mcpVars>>

GetGuardrailRemainings == \E c \in Callers, metric \in Metrics : GetGuardrailRemaining(c, metric)
GuardrailAnswers == \E c \in Callers, resp \in GuardrailReplies : GuardrailReply(c, resp)
Advances == \E t \in Times : Advance(t)

\* The guardrail helper: calls overlap, the clock runs, the cache is invalidated.
NextGuardrail ==
  \/ GetInfos
  \/ GetGuardrailRemainings
  \/ GuardrailAnswers
  \/ InvalidateGuardrailCache
  \/ Advances

SpecGuardrail == Init /\ [][NextGuardrail]_vars

\* The stream client next to the background delivery: one connect() call with
\* its connections and disconnect(), while events are queued and drained.
NextBoth ==
  \/ SendEventQueued
  \/ TimerFire
  \/ DrainReplyCounted
  \/ BackoffWakes
  \/ FirstConnect
  \/ HandshakeReplies
  \/ ReadReplies
  \/ Aborteds
  \/ ReconnectWakes
  \/ Disconnect

SpecBoth == Init /\ [][NextBoth]_vars

TypeOK ==
  /\ fireAndForget \in BOOLEAN
  /\ eventQueue \in Seq(EventIds)
  /\ retries \in [EventIds -> 0..MaxRetries]
  /\ flushTimer \in BOOLEAN
  /\ timers \in 0..MaxEvents
  /\ attempted \in 0..MaxEvents
  /\ flushing \in BOOLEAN
  /\ \A o \in Owners : drain[o].pc \in {"none", "request", "backoff"}
  /\ \A f \in Flushers : fpc[f] \in {"idle", "spin", "drain", "spindrain"}
  /\ nextId \in 1..(MaxEvents + 1)
  /\ apc \in {"idle", "request"}
  /\ agentId \in {"null"} \cup AgentIds
  /\ sseController \in {0} \cup ControllerIds
  /\ nextCtl \in 1..(MaxControllers + 1)
  /\ \A k \in SessionIds :
       sessions[k].pc \in {"none", "connecting", "reading", "waiting", "ended"}


\* --------------------------------------------------------- governed wrappers
\* createGovernedTool (lines 684-731), wrapGenerate and wrapStream of
\* createVercelAIMiddleware (lines 754-837): pre-flight check, the wrapped
\* function, activity reports through logActivity() = sendEvent('activity')
Wrappers == {"createGovernedTool", "wrapGenerate", "wrapStream"}

\* what the wrapped function does: resolves, or throws a RovnError or another error
FnOutcomes == {"result", "RovnError", "Error"}

\* `if (err instanceof RovnError) throw err;` (lines 710, 723, 779, 793, 821, 829)
rethrows(err) == err.kind = "RovnError"

\* the wrapper call rejects with `error`
ToolRejects(error, check) ==
  /\ tool' = NoTool
  /\ lastTool' = [w |-> tool.w, result |-> "rejected", error |-> error, check |-> check]

\* `await options.fn(...args)` / `await fn()`: the wrapped function is invoked
Execute(check) ==
  /\ tool' = [pc |-> "fn", w |-> tool.w, check |-> check, ev |-> 0]
  /\ lastTool' = NoToolResult

\* logActivity() called by the wrapper: in fire-and-forget mode the event is
\* queued and `Queued` goes on in the same turn; in synchronous mode the
\* direct request is issued and the wrapper waits at position pc
LogActivity(pc, check, Queued) ==
  /\ nextId <= MaxEvents
  /\ nextId' = nextId + 1
  /\ IF sendEventQueues(fireAndForget)
       THEN /\ Enqueue(nextId)
            /\ Queued
       ELSE /\ tool' = [pc |-> pc, w |-> tool.w, check |-> check, ev |-> nextId]
            /\ lastTool' = NoToolResult
            /\ UNCHANGED <<eventQueue, retries, flushTimer, timers>>

\* a call of the wrapper: agent.checkAction(actionName) is issued, or throws
\* AGENT_ID_MISSING, which the catch block of the check passes on
ToolCall(w) ==
  /\ tool.pc = "idle"
  /\ IF ~ensureAgentId(agentId)
       THEN /\ tool' = NoTool
            /\ lastTool' = [w |-> w, result |-> "rejected", error |-> "AGENT_ID_MISSING",
                            check |-> "RovnError"]
       ELSE /\ tool' = [pc |-> "check", w |-> w, check |-> "none", ev |-> 0]
            /\ lastTool' = NoToolResult
  /\ lastExchange' = NoExchange
  /\ lastFlush' = NoFlush
  /\ UNCHANGED <<fireAndForget, eventQueue, retries, flushTimer, timers, flushing, drain,
                 attempted, fpc, spc, apc, nextId, streamVars, readVars, cacheVars, mcpVars>>

\* the reply of checkAction(): allowed, blocked (the 'Blocked' report, then
\* POLICY_BLOCKED), or a failure that the catch block passes on or swallows
CheckReply(resp, allowed) ==
  /\ tool.pc = "check"
  /\ LET err == request(resp)
     IN  IF err.kind = "ok"
           THEN IF ~allowed
                  THEN LogActivity("blockedReport", "blocked", ToolRejects("POLICY_BLOCKED", "blocked"))
                  ELSE /\ Execute("allowed")
                       /\ UNCHANGED <<eventQueue, retries, flushTimer, timers, nextId>>
         ELSE IF rethrows(err)
           THEN /\ ToolRejects("RovnError", "RovnError")
                /\ UNCHANGED <<eventQueue, retries, flushTimer, timers, nextId>>
           ELSE /\ Execute("Error")
                /\ UNCHANGED <<eventQueue, retries, flushTimer, timers, nextId>>
  /\ lastExchange' = NoExchange
  /\ lastFlush' = NoFlush
  /\ UNCHANGED <<fireAndForget, flushing, drain, attempted, fpc, spc, apc,
                 streamVars, readVars, cacheVars, mcpVars>>

\* synchronous mode: the reply of the direct request of the 'Blocked' report.
\* sendEvent() returns (delivered, or queued after a retryable failure) and
\* POLICY_BLOCKED is thrown, or sendEvent() throws and the catch block of the
\* check passes the error on or swallows it and goes on to the function
BlockedReportReply(resp) ==
  /\ tool.pc = "blockedReport"
  /\ LET err == request(resp)
     IN  IF err.kind = "ok"
           THEN /\ ToolRejects("POLICY_BLOCKED", tool.check)
                /\ UNCHANGED <<eventQueue, retries, flushTimer, timers>>
         ELSE IF isRetryable(err)
           THEN /\ Enqueue(tool.ev)
                /\ ToolRejects("POLICY_BLOCKED", tool.check)
         ELSE IF rethrows(err)
           THEN /\ ToolRejects("RovnError", tool.check)
                /\ UNCHANGED <<eventQueue, retries, flushTimer, timers>>
           ELSE /\ Execute(tool.check)
                /\ UNCHANGED <<eventQueue, retries, flushTimer, timers>>
  /\ lastExchange' = NoExchange
  /\ lastFlush' = NoFlush
  /\ UNCHANGED <<fireAndForget, flushing, drain, attempted, fpc, spc, apc, nextId,
                 streamVars, readVars, cacheVars, mcpVars>>

\* the wrapper call resolves with the result of the function
ToolReturns ==
  /\ tool' = NoTool
  /\ lastTool' = [w |-> tool.w, result |-> "returned", error |-> "none", check |-> tool.check]

\* the wrapped function settles: a RovnError is passed on; a result is
\* followed by the 'Executed' report, another error by the 'Failed' report
FnSettles(out) ==
  /\ tool.pc = "fn"
  /\ IF out = "RovnError"
       THEN /\ ToolRejects("RovnError", tool.check)
            /\ UNCHANGED <<eventQueue, retries, flushTimer, timers, nextId>>
     ELSE IF out = "result"
       THEN LogActivity("executedReport", tool.check, ToolReturns)
       ELSE LogActivity("failedReport", tool.check, ToolRejects("Error", tool.check))
  /\ lastExchange' = NoExchange
  /\ lastFlush' = NoFlush
  /\ UNCHANGED <<fireAndForget, flushing, drain, attempted, fpc, spc, apc,
                 streamVars, readVars, cacheVars, mcpVars>>

\* synchronous mode: the reply of the direct request of the 'Executed' or
\* 'Failed' report; an error thrown by the 'Executed' report is handled by the
\* catch block around the function, one thrown by the 'Failed' report leaves
\* the wrapper
ReportReply(resp) ==
  /\ tool.pc \in {"executedReport", "failedReport"}
  /\ LET err == request(resp)
         Done == IF tool.pc = "executedReport" THEN ToolReturns
                                               ELSE ToolRejects("Error", tool.check)
     IN  IF err.kind = "ok"
           THEN /\ Done
                /\ UNCHANGED <<eventQueue, retries, flushTimer, timers, nextId>>
         ELSE IF isRetryable(err)
           THEN /\ Enqueue(tool.ev)
                /\ Done
                /\ nextId' = nextId
         ELSE IF rethrows(err) \/ tool.pc = "failedReport"
           THEN /\ ToolRejects(err.kind, tool.check)
                /\ UNCHANGED <<eventQueue, retries, flushTimer, timers, nextId>>
           ELSE /\ nextId <= MaxEvents
                /\ nextId' = nextId + 1
                /\ tool' = [tool EXCEPT !.pc = "failedReport", !.ev = nextId]
                /\ lastTool' = NoToolResult
                /\ UNCHANGED <<eventQueue, retries, flushTimer, timers>>
  /\ lastExchange' = NoExchange
  /\ lastFlush' = NoFlush
  /\ UNCHANGED <<fireAndForget, flushing, drain, attempted, fpc, spc, apc,
                 streamVars, readVars, cacheVars, mcpVars>>

ToolCalls == \E w \in Wrappers : ToolCall(w)
CheckReplies == \E resp \in Responses, allowed \in BOOLEAN : CheckReply(resp, allowed)
BlockedReportReplies == \E resp \in Responses : BlockedReportReply(resp)
FnSettle == \E out \in FnOutcomes : FnSettles(out)
ReportReplies == \E resp \in Responses : ReportReply(resp)

NextTool ==
  \/ GetInfos
  \/ ToolCalls
  \/ CheckReplies
  \/ BlockedReportReplies
  \/ FnSettle
  \/ ReportReplies
  \/ TimerFire
  \/ DrainReplyCounted
  \/ BackoffWakes

\* a governed wrapper on an agent in either mode, with the delivery worker
SpecTool == Init /\ [][NextTool]_vars


\* ---------------------------------------------------- mcp-server: rovn_register
\* packages/mcp-server/src/server.ts.  Keys and ids: '' for unset, "k0"/"id0"
\* from the command line or the environment, "k1"/"id1" issued by a registration.
ArgvKeys == {"", "k0"}
ArgvIds == {"", "id0"}

\* createConfig(), lines 42-49: apiKey and agentId from the arguments or the
\* environment, '' when absent
createConfig(key, id) == [loaded |-> TRUE, apiKey |-> key, agentId |-> id]

\* safeFetch(), lines 81-108: TRUE when the returned object has success true
safeFetch(resp) == resp.status # 0 /\ ResOk(resp) /\ resp.body = "ok"

\* rovn_register, line 287: if (config.apiKey && config.agentId)
bothSet(cfg) == cfg.apiKey # "" /\ cfg.agentId # ""

\* a rovn_register that treats no key as pre-configured
preConfigured_Never(key) == FALSE

\* rovn_register, line 303: getArg(process.argv.slice(2), '--api-key') || process.env.ROVN_API_KEY
preConfigured(key) == key # ""

\* the module is loaded: `export const config = createConfig(process.argv.slice(2))`
Startup(key, id) ==
  /\ ~config.loaded
  /\ argvKey' = key
  /\ config' = createConfig(key, id)
  /\ lastRegister' = NoRegister
  /\ UNCHANGED <<rpc, queueVars, streamVars, readVars, cacheVars, toolVars>>

\* handleToolCall({name: 'rovn_register'}) up to its first await: the
\* trust-score GET when both credentials are set, else the register POST
RegisterCall(r) ==
  /\ config.loaded
  /\ rpc[r] = "idle"
  /\ IF bothSet(config)
       THEN /\ rpc' = [rpc EXCEPT ![r] = "validating"]
            /\ lastRegister' = [r |-> r, op |-> "get", validation |-> "none", success |-> FALSE]
       ELSE /\ rpc' = [rpc EXCEPT ![r] = "registering"]
            /\ lastRegister' = [r |-> r, op |-> "post", validation |-> "none", success |-> FALSE]
  /\ UNCHANGED <<config, argvKey, queueVars, streamVars, readVars, cacheVars, toolVars>>

\* the reply of the trust-score GET: reuse, keep pre-configured credentials,
\* or clear the credentials and issue the register POST
ValidationReply(r, resp) ==
  /\ rpc[r] = "validating"
  /\ IF safeFetch(resp)
       THEN /\ rpc' = [rpc EXCEPT ![r] = "idle"]
            /\ lastRegister' = [r |-> r, op |-> "return", validation |-> "ok", success |-> TRUE]
            /\ config' = config
     ELSE IF preConfigured(argvKey)
       THEN /\ rpc' = [rpc EXCEPT ![r] = "idle"]
            /\ lastRegister' = [r |-> r, op |-> "return", validation |-> "failed", success |-> TRUE]
            /\ config' = config
       ELSE /\ rpc' = [rpc EXCEPT ![r] = "registering"]
            /\ lastRegister' = [r |-> r, op |-> "post", validation |-> "failed", success |-> FALSE]
            /\ config' = [config EXCEPT !.apiKey = "", !.agentId = ""]
  /\ UNCHANGED <<argvKey, queueVars, streamVars, readVars, cacheVars, toolVars>>

\* the reply of the register POST: the issued credentials are stored, or the
\* failure is returned
RegisterReply(r, resp) ==
  /\ rpc[r] = "registering"
  /\ rpc' = [rpc EXCEPT ![r] = "idle"]
  /\ IF safeFetch(resp)
       THEN /\ config' = [config EXCEPT !.apiKey = "k1", !.agentId = "id1"]
            /\ lastRegister' = [r |-> r, op |-> "return", validation |-> "none", success |-> TRUE]
       ELSE /\ config' = config
            /\ lastRegister' = [r |-> r, op |-> "return", validation |-> "none", success |-> FALSE]
  /\ UNCHANGED <<argvKey, queueVars, streamVars, readVars, cacheVars, toolVars>>

Startups == \E key \in ArgvKeys, id \in ArgvIds : Startup(key, id)
RegisterCalls == \E r \in Registrants : RegisterCall(r)
ValidationReplies == \E r \in Registrants, resp \in Responses : ValidationReply(r, resp)
RegisterReplies == \E r \in Registrants, resp \in Responses : RegisterReply(r, resp)

NextRegister ==
  \/ Startups
  \/ RegisterCalls
  \/ ValidationReplies
  \/ RegisterReplies

\* the MCP server's rovn_register tool
SpecRegister == Init /\ [][NextRegister]_vars


\* ===================================================================== claims

\* the drain attempt of owner o was answered in this step, with this result
DrainAnswered(o, results) ==
  /\ drain[o].pc = "request"
  /\ lastExchange'.by = "drain"
  /\ lastExchange'.result \in results

\* enqueue() was called for event e in this step
EnqueueStep(e) ==
  \/ fireAndForget /\ nextId = e /\ nextId' = e + 1
  \/ \E s \in Senders : /\ spc[s].pc = "request" /\ spc[s].ev = e
                        /\ lastExchange'.by = "sync" /\ lastExchange'.result = "queued"

\* flush() was called by f in this step
FlushCalled(f) ==
  /\ fpc[f] = "idle"
  /\ lastFlush'.f = f \/ fpc'[f] # "idle"

\* C1: at most one drainQueue loop is active at any moment, and while one is
\* active the flushing flag is set, so that no second drain gets past the guard.
C1_SingleDrain ==
  /\ Cardinality(Active(drain)) <= 1
  /\ Active(drain) # {} => flushing

\* a drain started by flush() is running while a scheduled trigger is pending
\* and another flush() call is waiting: both will try to start a drain
C1_Witness ==
  \E f, g \in Flushers :
    /\ f # g
    /\ drain[f].pc # "none"
    /\ flushTimer
    /\ fpc[g] = "spin"

\* C2: when a drain attempt for event E ends in success or in a terminal
\* failure, exactly E is removed from the queue and no other event is.
C2_RemovesAttempted ==
  [][\A o \in Owners :
       DrainAnswered(o, {"ok", "dropped"}) =>
         /\ drain[o].item \in Range(eventQueue)
         /\ eventQueue' = SelectSeq(eventQueue, LAMBDA x : x # drain[o].item)]_vars

\* C3: when a drain attempt for event E ends in a retryable failure, E is at
\* the front of the queue afterwards with its retry count up by exactly one,
\* and the attempt made after the backoff wait is for E again.
C3_RetriesSameEvent ==
  [][\A o \in Owners :
       /\ DrainAnswered(o, {"retry"}) =>
            /\ eventQueue' # <<>>
            /\ Head(eventQueue') = drain[o].item
            /\ retries'[drain[o].item] = retries[drain[o].item] + 1
       /\ (drain[o].pc = "backoff" /\ drain'[o].pc # "backoff") =>
            /\ drain'[o].pc = "request"
            /\ drain'[o].item = drain[o].item]_vars

\* C4: the queue never holds more than MAX_QUEUE_SIZE events, and an enqueue
\* on a full queue leaves its length at MAX_QUEUE_SIZE.
C4_QueueBounded ==
  /\ [](Len(eventQueue) <= MAX_QUEUE_SIZE)
  /\ [][\A e \in EventIds :
          (EnqueueStep(e) /\ Len(eventQueue) = MAX_QUEUE_SIZE)
            => Len(eventQueue') = MAX_QUEUE_SIZE]_vars

\* the queue is full and the event of the attempt in flight is no longer in
\* it: an enqueue on the full queue has taken place
C4_Witness ==
  \E o \in Owners :
    /\ drain[o].pc = "request"
    /\ drain[o].item \notin Range(eventQueue)
    /\ Len(eventQueue) = MAX_QUEUE_SIZE

\* C5: an enqueue on a full queue removes the event at the head and nothing
\* else, keeps the order of the others, and appends the new event at the tail
\* with retry count 0; the event being enqueued is never the one discarded.
C5_DropOldest ==
  [][\A e \in EventIds :
       EnqueueStep(e) =>
         /\ Len(eventQueue') >= 1
         /\ eventQueue'[Len(eventQueue')] = e
         /\ retries'[e] = 0
         /\ Len(eventQueue) = MAX_QUEUE_SIZE =>
              /\ Len(eventQueue') = MAX_QUEUE_SIZE
              /\ \A i \in 1..(MAX_QUEUE_SIZE - 1) : eventQueue'[i] = eventQueue[i + 1]
         /\ Len(eventQueue) < MAX_QUEUE_SIZE =>
              /\ Len(eventQueue') = Len(eventQueue) + 1
              /\ \A i \in 1..Len(eventQueue) : eventQueue'[i] = eventQueue[i]]_vars

\* the worker waits to retry an event that an enqueue on the full queue has
\* discarded; the events behind it are all still queued, in order
C5_Witness ==
  \E o \in Owners :
    /\ drain[o].pc = "backoff"
    /\ Len(eventQueue) = MAX_QUEUE_SIZE
    /\ \A i \in 1..Len(eventQueue) : eventQueue[i] = drain[o].item + i

\* the delays of the first, second, ... retry of one event
ExpectedDelay(k) ==
  IF k <= 5 THEN <<1000, 2000, 4000, 8000, 16000>>[k] ELSE 30000

\* C6: the wait before the k-th consecutive retry of an event is 1000, 2000,
\* 4000, 8000, 16000, 30000, 30000, ... ms, a function of that event's retry
\* count alone, and an event that newly comes to the front starts at count 0.
C6_BackoffSequence ==
  /\ [](\A o \in Owners :
          drain[o].pc = "backoff" =>
            /\ drain[o].delayMs = ExpectedDelay(retries[drain[o].item])
            /\ drain[o].delayMs <= 30000)
  /\ [][\A o \in Owners :
          (drain'[o].pc = "request" /\ drain'[o].item # drain[o].item)
            => retries'[drain'[o].item] = 0]_vars

\* the seventh retry of an event waits 30000 ms, as the sixth did
C6_Witness ==
  \E o \in Owners :
    /\ drain[o].pc = "backoff"
    /\ retries[drain[o].item] = 7
    /\ drain[o].delayMs = 30000

\* the statuses the claim calls retryable (0: no response was received)
RetryableStatus(st) == st = 0 \/ st = 429 \/ st >= 500

\* C7: a failed exchange is retried (in the drain) or queued (on the
\* synchronous path) iff the status is 429, is >= 500 or there was no
\* response; with any other status the event is dropped, or the error thrown.
C7_RetryableByStatus ==
  (lastExchange.by # "none" /\ lastExchange.result # "ok") =>
    IF RetryableStatus(lastExchange.resp.status)
      THEN lastExchange.result \in {"retry", "queued"}
      ELSE lastExchange.result \in {"dropped", "thrown"}

\* C8: the worker makes only boundedly many delivery attempts for one event:
\* for every event there is a last attempt.
C8_BoundedRetries ==
  \A e \in EventIds :
    <>[](\A o \in Owners : ~(drain[o].pc = "request" /\ drain[o].item = e))

\* C9: in the state in which a flush() call returns the queue is empty and no
\* drain is in progress.
C9_FlushReturnsDrained ==
  lastFlush.path # "none" =>
    /\ eventQueue = <<>>
    /\ ~flushing
    /\ Active(drain) = {}

\* a flush() call that waited for a running drain and then drained the events
\* enqueued meanwhile returns, while another flush() call is still waiting
C9_Witness ==
  /\ lastFlush.path = "spindrain"
  /\ \E g \in Flushers : g # lastFlush.f /\ fpc[g] = "spin"

\* C10: flush() called with an empty queue and no drain running returns in the
\* same turn, issues no request and starts no drain.
C10_FlushOnEmpty ==
  [][\A f \in Flushers :
       (FlushCalled(f) /\ eventQueue = <<>> /\ ~flushing) =>
         /\ lastFlush'.f = f
         /\ lastFlush'.path = "fast"
         /\ fpc'[f] = "idle"
         /\ ~flushing'
         /\ ~flushTimer'
         /\ UNCHANGED <<eventQueue, drain, spc>>]_vars

\* a flush() call on the empty idle client returned at once and cancelled a
\* pending trigger
C10_Witness ==
  /\ lastFlush.path = "fast"
  /\ lastFlush.timerAtCall
  /\ eventQueue = <<>>

\* C11: no delivery failure leaves flush(), close() or the background drain:
\* whatever the Transport answers, no flush() call is rejected and no exchange
\* of the drain worker ends with an error raised; and once no drain loop is
\* running, the flushing flag is false again.
C11_NoFailureEscapes ==
  /\ ~lastFlush.rejected
  /\ lastExchange.by = "drain" => lastExchange.result \in {"ok", "retry", "dropped"}
  /\ Active(drain) = {} => ~flushing

\* a flush() call returns normally at the end of a drain whose last request
\* failed for good (the event was dropped), with flushing false again
C11_Witness ==
  /\ lastFlush.path \in {"drain", "spindrain"}
  /\ lastExchange.by = "drain"
  /\ lastExchange.result = "dropped"
  /\ ~flushing

\* number of occurrences of event e in queue q
Count(q, e) == Cardinality({i \in 1..Len(q) : q[i] = e})

\* a step in which sendEvent() is called for a new event
SendEventCalled == nextId' = nextId + 1

\* the Transport replies to the direct request of synchronous caller s
SyncAnswered(s) == spc[s].pc = "request" /\ spc'[s].pc = "idle"

\* the statuses the claims call terminal: 4xx other than 429
TerminalStatus(st) == st >= 400 /\ st < 500 /\ st # 429

\* C12: in fire-and-forget mode a sendEvent() call (and so each wrapper, which
\* only awaits sendEvent) puts the event in the queue exactly once, at the
\* back and with retry count 0, issues no request before it returns (neither
\* a direct one nor one of the drain) and throws nothing, whatever the state
\* of the queue and of the worker.
C12_FireAndForgetEnqueues ==
  [][(fireAndForget /\ SendEventCalled) =>
       /\ Len(eventQueue') > 0
       /\ eventQueue'[Len(eventQueue')] = nextId
       /\ Count(eventQueue', nextId) = 1
       /\ retries'[nextId] = 0
       /\ spc' = spc
       /\ \A s \in Senders : spc[s].pc = "idle"
       /\ drain' = drain
       /\ lastExchange' = NoExchange]_vars

\* an event was just enqueued on a full queue while the worker waits in a
\* backoff after a failed request
C12_Witness ==
  /\ fireAndForget
  /\ Len(eventQueue) = MAX_QUEUE_SIZE
  /\ eventQueue[Len(eventQueue)] = nextId - 1
  /\ nextId > MAX_QUEUE_SIZE + 1
  /\ \E o \in Owners : drain[o].pc = "backoff"
  /\ lastExchange = NoExchange
  /\ ~flushTimer

C14_TerminalIsRaised ==
  [][/\ \A s \in Senders :
          (/\ SyncAnswered(s)
           /\ lastExchange'.result # "ok"
           /\ TerminalStatus(lastExchange'.resp.status)) =>
            /\ lastExchange'.result = "thrown"
            /\ UNCHANGED <<eventQueue, retries, flushTimer, flushing>>
     /\ lastExchange'.result \in {"thrown", "raised"} => lastExchange'.by \in {"sync", "approval"}
     /\ ~lastFlush'.rejected]_vars

\* C15: requestApproval() takes the direct path in both modes: the step of
\* the call and the step of the reply leave the queue, the retry counts, the
\* drain trigger, the flushing flag and the worker as they were; the call
\* returns only in the step of its reply; and every failed exchange
\* (retryable or terminal) is thrown to the caller, never queued.
C15_ApprovalIsDirect ==
  [][/\ apc' # apc =>
          UNCHANGED <<eventQueue, retries, flushTimer, flushing, drain, fpc, spc, nextId>>
     /\ (apc = "request" /\ apc' = "idle") =>
          /\ lastExchange'.by = "approval"
          /\ IF request(lastExchange'.resp).kind = "ok"
               THEN lastExchange'.result = "ok"
               ELSE lastExchange'.result = "thrown"
     /\ lastExchange'.by = "approval" => (apc = "request" /\ apc' = "idle")]_vars

\* in fire-and-forget mode, with events queued and a drain running, a
\* requestApproval() met a retryable failure and threw it
C15_Witness ==
  /\ fireAndForget
  /\ lastExchange.by = "approval"
  /\ lastExchange.result = "thrown"
  /\ RetryableStatus(lastExchange.resp.status)
  /\ eventQueue # <<>>
  /\ flushing
  /\ apc = "idle"

\* the failures of a stream that are not deliberate: a non-2xx handshake, a
\* response without body, a network error on connect, a read error mid-stream
FailureOps == {"status", "nobody", "network", "readError"}

\* C16: when the server closes an established stream (the reader reports the
\* end of the stream) and reconnect is not false, the connect() call goes on
\* to a new connection attempt after 3000 ms: it enters the wait.
C16_ReconnectsAfterServerClose ==
  [][\A k \in SessionIds :
       (/\ sessions[k].pc = "reading"
        /\ sessions[k].reconnect
        /\ lastStream'.op = "done"
        /\ lastStream'.arg = k) =>
         /\ sessions'[k].pc = "waiting"
         /\ sessions'[k].delayMs = RECONNECT_DELAY_MS]_vars

\* C17: after a failure that is not deliberate, a connect() call with
\* reconnect not false waits 3000 ms (the same wait after every attempt) and
\* then makes exactly one new connection attempt; with reconnect false it
\* makes no further attempt, ever.
C17_FailureReconnectsOnce ==
  [][\A k \in SessionIds :
       /\ (lastStream'.op \in FailureOps /\ lastStream'.arg = k) =>
            IF sessions[k].reconnect
              THEN /\ sessions'[k].pc = "waiting"
                   /\ sessions'[k].delayMs = RECONNECT_DELAY_MS
                   /\ nextCtl' = nextCtl
              ELSE /\ sessions'[k].pc = "ended"
                   /\ nextCtl' = nextCtl
       /\ (sessions[k].pc = "waiting" /\ sessions'[k] # sessions[k]) =>
            /\ sessions'[k].pc = "connecting"
            /\ sessions'[k].attempt = sessions[k].attempt + 1
            /\ nextCtl' = nextCtl + 1
       /\ sessions[k].pc = "ended" => sessions'[k] = sessions[k]]_vars

\* a connect() call waits 3000 ms after its second failed attempt, while a
\* connect() call made with reconnect false has ended for good
C17_Witness ==
  \E k, j \in SessionIds :
    /\ sessions[k].pc = "waiting"
    /\ sessions[k].attempt = 2
    /\ sessions[k].delayMs = 3000
    /\ sessions[j].pc = "ended"
    /\ ~sessions[j].reconnect
    /\ ~signalAborted(j)

\* C18: after disconnect() has returned and until the next connect() call
\* (the stream handle is null all that time), no connection attempt is made
\* and the handler is not invoked.
C18_StaysDisconnected ==
  [][(sseController = 0 /\ lastStream'.op # "connect") =>
       /\ nextCtl' = nextCtl
       /\ lastStream'.op # "record"]_vars

\* C19: disconnect() may be called in any state and any number of times:
\* no AbortController is ever aborted more than once, and the handle is null
\* when the call returns.
C19_DisconnectIdempotent ==
  /\ \A c \in ControllerIds : abortCalls[c] <= 1
  /\ lastStream.op = "disconnect" => sseController = 0

\* disconnect() was called again on a null handle, after an earlier call
\* aborted the stream of a connect() call that then returned
C19_Witness ==
  /\ lastStream.op = "disconnect"
  /\ lastStream.arg = 0
  /\ sseController = 0
  /\ \E k \in SessionIds :
       /\ sessions[k].pc = "ended"
       /\ abortCalls[sessions[k].ctl] = 1

\* C20: a connect() call made when no agent id is set and none is passed
\* throws, in the calling turn, and leaves the handle, the agent id, the
\* controllers, the connect() closures and the queue side as they were.
C20_ConnectWithoutIdThrows ==
  [][(/\ lastStream'.op \in {"connect", "connectThrew"}
      /\ agentId = "null"
      /\ lastStream'.optId \in {"undefined", ""}) =>
       /\ lastStream'.op = "connectThrew"
       /\ UNCHANGED <<agentId, sseController, abortCalls, nextCtl, sessions, queueVars>>]_vars

\* connect() threw on a client that has no agent id (an empty string was passed)
C20_Witness ==
  /\ lastStream.op = "connectThrew"
  /\ lastStream.optId = ""
  /\ agentId = "null"
  /\ sseController = 0
  /\ nextCtl = 1

\* session k starts a connection attempt in this step
Attempts(k) ==
  sessions'[k].pc = "connecting" /\ sessions'[k].attempt # sessions[k].attempt

\* C21 as stated: every connection attempt of a connect() call carries as
\* Last-Event-ID header the identifier of the most recent `id: ` line read
\* on its earlier connections, and no such header while no `id: ` line was read.
C21_HeaderIsLastIdLine ==
  [][Attempts(1) =>
       sessions'[1].header = [present |-> seenId.seen, value |-> seenId.value]]_vars

\* C21 as amended: every connection attempt of a connect() call carries as
\* Last-Event-ID header the identifier of the most recent `id: ` line read on
\* its earlier connections when that identifier is not empty, and no such
\* header when no `id: ` line was read or the most recent one has an empty
\* identifier; a reconnect leaves the remembered identifier as it is.
C21_HeaderIsLastNonEmptyId ==
  [][/\ Attempts(1) =>
          /\ sessions'[1].header =
               IF seenId.seen /\ seenId.value # <<>>
                 THEN [present |-> TRUE, value |-> seenId.value]
                 ELSE NoHeader
          /\ sessions'[1].lastEventId = sessions[1].lastEventId
     /\ sessions[1].pc # "reading" => sessions'[1].lastEventId = sessions[1].lastEventId]_vars

\* the second reconnect of a connect() call carries the later of two
\* identifiers read on its first connection
C21_Witness ==
  /\ sessions[1].attempt = 3
  /\ sessions[1].pc = "connecting"
  /\ sessions[1].header = [present |-> TRUE, value |-> <<"a", "a">>]
  /\ seenId = [seen |-> TRUE, value |-> <<"a", "a">>]

\* C22: the handler calls made on a connection are those the same bytes
\* give when they arrive in one read, however the reads cut them.
C22_ChunkingIndependent ==
  dispatched = processChunk(<<>>, <<>>, received).calls

\* a text with every "z" replaced by "y": malformed data made well-formed,
\* the bytes in the same places
Repair(text) == [i \in 1..Len(text) |-> IF text[i] = "z" THEN "y" ELSE text[i]]

NotRepaired(call) == \A i \in 1..Len(call.data) : call.data[i] # "y"

C24_OneGetPerWindow ==
  (window.clean /\ window.first >= 0) => window.gets = 1

\* C25: the first getGuardrailRemaining() call that starts after an
\* invalidateGuardrailCache() issues a GET, whatever was cached or in flight
\* when the cache was invalidated.
C25_InvalidateForcesGet ==
  (lastCall.afterInvalidate /\ lastCall.op \in {"fetch", "return"}) => lastCall.op = "fetch"

Matching(list, metric) == {i \in 1..Len(list) : list[i].metric = metric}
Expected(list, metric) ==
  IF Matching(list, metric) = {} THEN Null
  ELSE LET i == CHOOSE i \in Matching(list, metric) : \A j \in Matching(list, metric) : i <= j
       IN [isNull |-> FALSE, value |-> list[i].limit_value - list[i].current_value]

\* C26: a getGuardrailRemaining(metric) that returns, returns limit_value -
\* current_value of the first guardrail of that metric in the list the most
\* recent refresh fetched, negative when the limit is exceeded, and null
\* exactly when that list has no guardrail of the metric.
C26_RemainingOfFirstMatch ==
  lastCall.op = "return" =>
    /\ lastCall.result = Expected(fetched, lastCall.metric)
    /\ lastCall.result.isNull <=> (\A i \in 1..Len(fetched) : fetched[i].metric # lastCall.metric)

C26_Witness ==
  /\ lastCall.op = "return"
  /\ ~lastCall.result.isNull
  /\ lastCall.result.value < 0
  /\ Cardinality(Matching(fetched, lastCall.metric)) > 1

DrainRequests == {o \in Owners : drain[o].pc = "request"}
DirectRequests == {s \in Senders : spc[s].pc = "request"}

\* C27 as stated: at most one POST to the webhook endpoint is outstanding at
\* any time, counting the drain worker's attempts, synchronous sendEvent
\* calls and requestApproval.
C27_OneRequestInFlight ==
  Cardinality(DrainRequests) + Cardinality(DirectRequests)
    + (IF apc = "request" THEN 1 ELSE 0) <= 1

\* C27: at most one delivery attempt of the drain worker is outstanding at
\* any time, in either submission mode, whatever the direct callers do.
C27_OneDrainRequestInFlight == Cardinality(DrainRequests) <= 1

C27_Witness ==
  /\ Cardinality(DrainRequests) = 1
  /\ DirectRequests # {}
  /\ \E f \in Flushers : fpc[f] # "idle"

\* C28: in the state in which close() resolves, the stream has been
\* disconnected (the handle is null and the controller close() found is
\* aborted), the queue is empty, no drain is running, and no connect() call
\* made before it is still connected or waiting to reconnect.
C28_CloseIsGraceful ==
  (lastStream.op = "close" /\ lastFlush.path # "none") =>
    /\ eventQueue = <<>>
    /\ ~flushing
    /\ Active(drain) = {}
    /\ sseController = 0
    /\ lastStream.arg # 0 => abortCalls[lastStream.arg] > 0
    /\ \A k \in SessionIds :
         /\ sessions[k].pc # "waiting"
         /\ sessions[k].pc \in {"connecting", "reading"} => signalAborted(k)

\* C29: at most one drain trigger is pending at any time and flushTimer is its
\* handle; only an enqueue arms a trigger; an enqueue made while a trigger is
\* pending or a drain is running arms none; and a flush() call leaves no
\* trigger pending, so that a trigger it found does not fire afterwards.
C29_ScheduleIdempotent ==
  /\ [](timers <= 1 /\ (flushTimer <=> timers = 1))
  /\ [][/\ timers' > timers => \E e \in EventIds : EnqueueStep(e)
        /\ \A e \in EventIds :
             (EnqueueStep(e) /\ (flushTimer \/ flushing)) => timers' = timers
        /\ \A f \in Flushers : FlushCalled(f) => (timers' = 0 /\ ~flushTimer')]_vars

\* a second event was enqueued while the trigger armed by the first was pending
C29_Witness ==
  /\ fireAndForget
  /\ timers = 1
  /\ flushTimer
  /\ ~flushing
  /\ Len(eventQueue) = 2

\* the drain worker of owner o issues a request in this step
Issued(o) ==
  /\ drain'[o].pc = "request"
  /\ drain[o].pc # "request" \/ DrainAnswered(o, {"ok", "dropped"})

\* C30: the drain worker attempts events in enqueue order: a request it
\* issues is never for an event enqueued before one it has already attempted.
C30_AttemptsInEnqueueOrder ==
  [][\A o \in Owners : Issued(o) => drain'[o].item >= attempted]_vars

\* the worker, done with the first event, is attempting a later one again
\* after a retryable failure
C30_Witness ==
  \E o \in Owners :
    /\ drain[o].pc = "request"
    /\ drain[o].item > 1
    /\ drain[o].item = attempted
    /\ retries[drain[o].item] > 0
    /\ Len(eventQueue) = 2

\* C31: with timers and replies scheduled fairly, finitely many events and
\* finitely many retryable failures per event, every flush() call resolves
\* and every non-empty queue leads to an idle worker with an empty queue.
C31_FlushTerminates ==
  /\ \A f \in Flushers : (fpc[f] # "idle") ~> (fpc[f] = "idle")
  /\ (eventQueue # <<>>) ~> (eventQueue = <<>> /\ ~flushing /\ Active(drain) = {})

\* a flush() call waits in its spin loop while the drain of another waits to
\* retry an event
C31_Witness ==
  \E f \in Flushers, o \in Owners :
    /\ fpc[f] = "spin"
    /\ drain[o].pc = "backoff"
    /\ Len(eventQueue) = 2

\* a step of the stream side: connect(), disconnect() or a step of a stream loop
StreamStep == streamVars' # streamVars
\* a step of the delivery side: an enqueue, a step of the drain loop
DeliveryStep == <<eventQueue, retries, flushTimer, timers, flushing, drain, nextId>>' #
                <<eventQueue, retries, flushTimer, timers, flushing, drain, nextId>>
\* the steps the stream loop of connect() call k can take: a reply to its
\* handshake, the end of a read, the AbortError after abort(), the end of its wait
StreamLoopReady(k) ==
  <<ENABLED (\E out \in HandshakeOutcomes : HandshakeReply(k, out)),
    ENABLED (\E out \in ReadOutcomes : ReadReply(k, out)),
    ENABLED Aborted(k),
    ENABLED ReconnectWake(k)>>

FetchStarts(c) == gpc[c].pc = "idle" /\ gpc'[c].pc = "fetching"
\* a getGuardrailRemaining() call returns from the cache in this step
ServedFromCache == lastCall'.op = "return" /\ gpc' = gpc
\* the fetch of call c is answered with a list in this step
Refreshed(c) == gpc[c].pc = "fetching" /\ gpc'[c].pc = "idle" /\ lastCall'.op = "return"

\* C33: a call is served from the cache exactly when there is an entry of age
\* at most 60,000 ms, and starts a fetch exactly when there is none or its age
\* is 60,001 ms or more; the entry a fetch stores has as cachedAt the time at
\* which its call started.
C33_FreshUpTo60000 ==
  [][/\ ServedFromCache => (guardrailCache.set /\ now - guardrailCache.cachedAt <= 60000)
     /\ \A c \in Callers :
          /\ FetchStarts(c) =>
               /\ ~guardrailCache.set \/ now - guardrailCache.cachedAt >= 60001
               /\ gpc'[c].now = now
          /\ Refreshed(c) =>
               /\ guardrailCache'.set
               /\ guardrailCache'.cachedAt = gpc[c].now]_vars

\* a call returned with an entry of age exactly 60,000 ms in place, one GET
\* having been issued
C33_Witness ==
  /\ lastCall.op = "return"
  /\ guardrailCache.set
  /\ now - guardrailCache.cachedAt = 60000
  /\ window.gets = 1
  /\ \A c \in Callers : gpc[c].pc = "idle"

\* C38: a refresh that fails rejects its call and leaves the cache entry as
\* it is, and the failure is not remembered: a call that starts next, with no
\* fresh entry, fetches again.  Without an agent id a call throws and changes
\* nothing: no fetch is ever started and no entry stored while the id is null.
C38_FailedRefreshKeepsCache ==
  /\ [](agentId = "null" =>
          /\ ~guardrailCache.set
          /\ \A c \in Callers : gpc[c].pc = "idle"
          /\ window.gets = 0
          /\ lastCall.op \in {"none", "throw", "invalidate"})
  /\ [][/\ lastCall'.op = "throw" =>
             (agentId = "null" /\ UNCHANGED <<guardrailCache, gpc, fetched, window, invalidated>>)
        /\ \A c \in Callers :
             /\ (gpc[c].pc = "fetching" /\ gpc'[c].pc = "idle" /\ lastCall'.op # "return") =>
                  /\ lastCall'.op = "reject"
                  /\ guardrailCache' = guardrailCache
             /\ (lastCall.op = "reject" /\ gpc[c].pc = "idle" /\ lastCall'.op \in {"fetch", "return"}
                   /\ gpc'[c].metric = lastCall'.metric
                   /\ (~guardrailCache.set \/ now - guardrailCache.cachedAt > 60000)) =>
                  gpc'[c].pc = "fetching"]_vars

\* the refresh of a stale entry failed: the entry is still there, still stale
C38_Witness ==
  /\ lastCall.op = "reject"
  /\ guardrailCache.set
  /\ now - guardrailCache.cachedAt > 60000

\* a drainQueue() activation is between its entry and its return
DrainRunning == flushing /\ Active(drain) # {}

\* the timer set by scheduleFlush() has not fired and was not cleared
TriggerPending == flushTimer /\ timers > 0

\* a flush() call is in its spin-wait: when it wakes with the queue
\* non-empty and no drain running it calls drainQueue() itself
FlushWaiting == \E f \in Flushers : fpc[f] = "spin"

\* C35: whenever the queue is non-empty a drain is running, or the drain
\* timer is pending, or a flush() call is waiting that will start a drain
C35_NoEventStranded ==
  eventQueue # <<>> => (DrainRunning \/ TriggerPending \/ FlushWaiting)

\* flush() has cancelled the pending timer and an event is in the queue
C35_Witness ==
  /\ eventQueue # <<>>
  /\ ~flushTimer
  /\ timers = 0
  /\ \E f \in Flushers : fpc[f] # "idle"

\* the drain issues a request for e, an event it has not attempted before
DrainFirstAttempt(e) ==
  /\ e > attempted
  /\ \E o \in Owners : /\ drain'[o].pc = "request"
                       /\ drain'[o].item = e
                       /\ drain[o] # drain'[o]

\* synchronous sendEvent() issues its direct request for e
DirectFirstAttempt(e) ==
  \E s \in Senders : /\ spc[s].pc = "idle"
                     /\ spc'[s] = [pc |-> "request", ev |-> e]

\* an event submitted before e is in the queue after the step
EarlierQueued(e) == \E i \in 1..Len(eventQueue') : eventQueue'[i] < e

\* C36, as claimed: in both modes the first attempt for an event is never
\* made while an event submitted earlier is still in the queue
C36_SubmissionOrderBothModes ==
  [][\A e \in EventIds :
       (DrainFirstAttempt(e) \/ DirectFirstAttempt(e)) => ~EarlierQueued(e)]_vars

\* C36, amended: in fire-and-forget mode the first attempt for an event is
\* never made while an event submitted earlier is still in the queue; in
\* synchronous mode the first attempt for an event is the direct request of
\* its own sendEvent() call, issued at submission whatever the queue holds,
\* and the drain only ever issues later attempts.
C36_SubmissionOrderWhenQueued ==
  [][/\ fireAndForget =>
          \A e \in EventIds : DrainFirstAttempt(e) => ~EarlierQueued(e)
     /\ ~fireAndForget =>
          /\ nextId' # nextId => DirectFirstAttempt(nextId)
          /\ \A o \in Owners :
               (drain'[o].pc = "request" /\ drain[o] # drain'[o]) => drain'[o].item < nextId
          /\ \A i \in 1..Len(eventQueue') :
               \A s \in Senders : spc'[s].pc = "request" => eventQueue'[i] # spc'[s].ev]_vars

\* fire-and-forget: the first attempt for the second event is in flight, the
\* first event is gone from the queue and a later event waits behind
C36_Witness ==
  /\ fireAndForget
  /\ \E o \in Owners : drain[o].pc = "request" /\ drain[o].item = 2
  /\ retries[2] = 0
  /\ attempted = 2
  /\ Len(eventQueue) = 2
  /\ eventQueue[1] = 2

\* event e is queued, or a Transport call for it is outstanding: the client
\* still has something to do for it
Live(e) ==
  \/ e \in Range(eventQueue)
  \/ \E o \in Owners : drain[o].pc = "request" /\ drain[o].item = e
  \/ \E s \in Senders : spc[s].pc = "request" /\ spc[s].ev = e

\* the number of outstanding Transport calls for event e
CallsInFlight(e) ==
  Cardinality({o \in Owners : drain[o].pc = "request" /\ drain[o].item = e})
    + Cardinality({s \in Senders : spc[s].pc = "request" /\ spc[s].ev = e})

\* C34: no event has two Transport calls outstanding at once; the step in
\* which an attempt for an event succeeds (directly or in the drain) leaves
\* the event neither queued nor in flight; and a submitted event that is
\* neither queued nor in flight stays so for ever.  Hence an event gets at
\* most one successful reply and no Transport call after it.
C34_AtMostOnceAck ==
  /\ [](\A e \in EventIds : CallsInFlight(e) <= 1)
  /\ [][\A e \in EventIds :
          /\ (lastExchange'.result = "ok" /\ lastExchange'.item = e) => ~Live(e)'
          /\ (e < nextId /\ ~Live(e)) => ~Live(e)']_vars

\* synchronous mode: the first event, queued after its direct attempt failed,
\* was delivered by the drain, and the worker has gone on to the next event
C34_Witness ==
  /\ lastExchange.by = "drain"
  /\ lastExchange.result = "ok"
  /\ lastExchange.item = 1
  /\ \E o \in Owners : drain[o].pc = "request" /\ drain[o].item = 2
  /\ ~fireAndForget

\* the connect() calls whose loop holds an open or opening connection whose
\* signal was not aborted
LiveStreams ==
  {k \in SessionIds : sessions[k].pc \in {"connecting", "reading"} /\ ~signalAborted(k)}

\* C37: an instance has at most one live stream connection, and when
\* disconnect() returns no connection opened by an earlier connect() call is
\* left open or opening with a signal that was not aborted
C37_DisconnectEndsEveryStream ==
  /\ Cardinality(LiveStreams) <= 1
  /\ lastStream.op = "disconnect" => LiveStreams = {}

\* the wrapped function is invoked in this step
FnInvoked == tool.pc # "fn" /\ tool'.pc = "fn"

\* C39: the wrapped function is invoked only when the check resolved with
\* allowed = true or failed with an error that is no RovnError; once the
\* check has resolved with allowed = false the call can only wait for the
\* 'Blocked' report or reject with a RovnError, whatever the report's outcome.
C39_BlockedNeverRuns ==
  /\ [](tool.pc \in {"fn", "executedReport", "failedReport"} => tool.check \in {"allowed", "Error"})
  /\ [][/\ FnInvoked => tool'.check \in {"allowed", "Error"}
        /\ (tool'.check = "blocked" \/ lastTool'.check = "blocked") =>
             \/ tool'.pc = "blockedReport"
             \/ /\ tool'.pc = "idle"
                /\ lastTool'.result = "rejected"
                /\ lastTool'.error \in {"POLICY_BLOCKED", "RovnError"}]_vars

\* synchronous mode: the check said allowed = false, the 'Blocked' report
\* failed with a client error, and the call rejected with that RovnError
C39_Witness ==
  /\ ~fireAndForget
  /\ lastTool.check = "blocked"
  /\ lastTool.result = "rejected"
  /\ lastTool.error = "RovnError"

\* C40: a rovn_register call made with both credentials set and a
\* pre-configured key issues the trust-score GET and not the register POST,
\* and at the reply, whether validation succeeded or failed, returns success
\* with config.apiKey and config.agentId as they are; the credentials are
\* cleared, and the register POST issued after a validation, only when the
\* validation failed and no key was pre-configured.
C40_PreConfiguredKept ==
  [][/\ \A r \in Registrants :
          /\ (rpc[r] = "idle" /\ rpc'[r] # "idle" /\ bothSet(config) /\ argvKey # "") =>
               (rpc'[r] = "validating" /\ config' = config)
          /\ (rpc[r] = "validating" /\ rpc'[r] # "validating" /\ argvKey # "") =>
               /\ rpc'[r] = "idle"
               /\ config' = config
               /\ lastRegister' = [r |-> r, op |-> "return",
                                   validation |-> lastRegister'.validation, success |-> TRUE]
          /\ (rpc[r] = "validating" /\ rpc'[r] = "registering") =>
               /\ argvKey = ""
               /\ lastRegister'.validation = "failed"
     /\ (bothSet(config) /\ ~bothSet(config')) =>
          /\ argvKey = ""
          /\ lastRegister'.validation = "failed"
          /\ rpc[lastRegister'.r] = "validating"]_vars

\* the validation of pre-configured credentials failed and the call returned
\* success with both credentials still in place
C40_Witness ==
  /\ argvKey = "k0"
  /\ lastRegister.op = "return"
  /\ lastRegister.validation = "failed"
  /\ lastRegister.success
  /\ config.apiKey = "k0"
  /\ config.agentId = "id0"

====
